---- MODULE Spec2Model ----
(***************************************************************************)
(* Asset acquisition and verification of the Ubuntu FAI build system:      *)
(* the retrying fetcher (src/downloaders/utils.py) and the caching         *)
(* package / script downloaders (src/downloaders/packages.py, scripts.py). *)
(***************************************************************************)
EXTENDS Integers, Sequences, FiniteSets, TLC

(***************************************************************************)
(* Python values.  An Optional[T] is a sequence of length at most one:     *)
(* None is <<>> and a present value x is <<x>>.  The same encoding is used *)
(* for a path of the file system: <<>> when no file exists there.          *)
(***************************************************************************)
None == <<>>
Some(x) == <<x>>
IsNone(o) == o = <<>>
Val(o) == o[1]

\* ---- bounds ----
\* largest max_retries argument tried (the smallest is -1)
MaxRetriesBound == 3
\* most chunks one HTTP response body is delivered in
MaxChunks == 2

\* ---- program constants ----
DefaultMaxRetries == 3
DefaultTimeout == 30

\* byte values: an ASCII letter and a byte that is not valid UTF-8 on its own
Bytes == {65, 200}
\* what iter_content can yield: an empty keep-alive chunk or one byte
Chunks == {<<>>} \cup {<<b>> : b \in Bytes}

RECURSIVE SeqsUpTo(_, _)
SeqsUpTo(S, n) ==
    IF n = 0 THEN {<<>>}
    ELSE LET shorter == SeqsUpTo(S, n - 1)
         IN  shorter \cup {Append(s, x) : s \in {t \in shorter : Len(t) = n - 1}, x \in S}

\* the bodies a server can stream, as lists of chunks
ChunkLists == SeqsUpTo(Chunks, MaxChunks)

RECURSIVE Pow2(_)
Pow2(n) == IF n <= 0 THEN 1 ELSE 2 * Pow2(n - 1)

RECURSIVE SumSeq(_)
SumSeq(s) == IF s = <<>> THEN 0 ELSE Head(s) + SumSeq(Tail(s))

\* a URL is its host and the basename of its path (Path(urlparse(url).path).name)
Urls == {[host |-> "h1", file |-> "a.deb"], [host |-> "h1", file |-> ""]}
NoUrl == [host |-> "", file |-> ""]
TimeoutChoices == {5, DefaultTimeout}
RetryChoices == -1 .. MaxRetriesBound

VARIABLES
    dest,       \* download_with_retry: the file at `destination` (Optional content)
    fetch,      \* download_with_retry: the call in progress or last finished
    downloader, \* the PackageDownloader or ScriptDownloader instance
    cache,      \* the files of its cache_dir, by file name
    call,       \* the last download_package / download_script call and its result
    batch,      \* the download_packages / download_scripts loop
    build,      \* FAIBuilder.build: the invocation in progress or last finished
    verify,     \* the last _verify_file call on a path of the file system
    tree,       \* AssetScanner: what lies under base_dir, by path
    manifest,   \* AssetScanner: the parsed manifest.json (Optional)
    scan,       \* AssetScanner: the last scan / save / verify call and its result
    edits,      \* the changes made under base_dir since manifest.json was written
    descriptor, \* the last FirstBootScript(...) construction and its result
    cachedir,   \* cleanup: the cache directory, its entries with their mtime
    purge,      \* the last cleanup_cache / clean_directory call and its result
    prepared,   \* FAIBuilder.prepare_local_assets: the call and the cache it fills
    infos,      \* the last create_script_info_from_config call and its result
    shared,     \* two instances: the file at the cache path they both use
    racers,     \* two instances: where each stands in its download_package call
    progress    \* a streaming loop with a progress callback, chunk by chunk

vars == <<dest, fetch, downloader, cache, call, batch, build, verify,
          tree, manifest, scan, edits, descriptor, cachedir, purge, prepared, infos,
          shared, racers, progress>>
fetchVars == <<dest, fetch>>
resolverVars == <<downloader, cache, call, batch>>
builderVars == <<build>>
verifierVars == <<verify>>
\* what the operations of one component leave alone
scannerVars == <<tree, manifest, scan, edits>>
configVars == <<descriptor>>
cleanupVars == <<cachedir, purge>>
localVars == <<prepared>>
infoVars == <<infos>>
raceVars == <<shared, racers>>
progressVars == <<progress>>
exceptFetch ==
    <<resolverVars, builderVars, verifierVars, scannerVars, configVars, cleanupVars,
      localVars, infoVars, raceVars,
      progressVars>>
exceptResolver ==
    <<fetchVars, builderVars, verifierVars, scannerVars, configVars, cleanupVars,
      localVars, infoVars, raceVars,
      progressVars>>
exceptBuilder ==
    <<fetchVars, resolverVars, verifierVars, scannerVars, configVars, cleanupVars,
      localVars, infoVars, raceVars,
      progressVars>>
exceptVerifier ==
    <<fetchVars, resolverVars, builderVars, scannerVars, configVars, cleanupVars,
      localVars, infoVars, raceVars,
      progressVars>>
exceptScanner ==
    <<fetchVars, resolverVars, builderVars, verifierVars, configVars, cleanupVars,
      localVars, infoVars, raceVars,
      progressVars>>
exceptConfig ==
    <<fetchVars, resolverVars, builderVars, verifierVars, scannerVars, cleanupVars,
      localVars, infoVars, raceVars,
      progressVars>>
exceptCleanup ==
    <<fetchVars, resolverVars, builderVars, verifierVars, scannerVars, configVars,
      localVars, infoVars, raceVars,
      progressVars>>
exceptLocal ==
    <<fetchVars, resolverVars, builderVars, verifierVars, scannerVars, configVars,
      cleanupVars, infoVars, raceVars,
      progressVars>>
exceptInfo ==
    <<fetchVars, resolverVars, builderVars, verifierVars, scannerVars, configVars,
      cleanupVars, localVars, raceVars,
      progressVars>>
exceptRace ==
    <<fetchVars, resolverVars, builderVars, verifierVars, scannerVars, configVars,
      cleanupVars, localVars, infoVars, progressVars>>
exceptProgress ==
    <<fetchVars, resolverVars, builderVars, verifierVars, scannerVars, configVars,
      cleanupVars, localVars, infoVars, raceVars>>

(***************************************************************************)
(* download_with_retry (utils.py:70-136)                                   *)
(***************************************************************************)

\* for chunk in response.iter_content(): if chunk: f.write(chunk)
RECURSIVE WriteChunks(_)
WriteChunks(chunks) ==
    IF chunks = <<>> THEN <<>>
    ELSE Head(chunks) \o WriteChunks(Tail(chunks))

\* what one pass through the try block can do
\*   timeout : session.get blocks for `timeout` seconds and raises Timeout
\*   error   : connection reset, or raise_for_status on a 4xx/5xx answer
\*   partial : the stream breaks after `chunks` were written to the opened file
\*   ok      : the whole body `chunks` is received
AttemptOutcomes ==
    {[kind |-> "timeout", chunks |-> <<>>], [kind |-> "error", chunks |-> <<>>]}
    \cup {[kind |-> k, chunks |-> cs] : k \in {"partial", "ok"}, cs \in ChunkLists}

\* a fetcher that opens the destination in append mode
DestAfterTry_Append(d, out) ==
    IF out.kind \in {"partial", "ok"}
    THEN Some((IF IsNone(d) THEN <<>> ELSE Val(d)) \o WriteChunks(out.chunks))
    ELSE d

\* the destination after the try block: open(destination, 'wb') truncates
DestAfterTry(d, out) ==
    IF out.kind \in {"partial", "ok"} THEN Some(WriteChunks(out.chunks)) ELSE d

\* a fetcher that leaves the partial download behind
CleanupPartial_Skip(d) == d

\* except: if destination.exists(): destination.unlink()
CleanupPartial(d) == None

\* a backoff that counts attempts from 1
SleepTime_FromOne(attempt) == Pow2(attempt + 1)

\* seconds a failed non-final attempt sleeps: sleep_time = 2 ** attempt
SleepTime(attempt) == Pow2(attempt)

\* a retry test that allows one attempt fewer
RetryAllowed_OffByOne(attempt, max_retries) == attempt + 1 < max_retries

\* if attempt < max_retries: sleep, else: raise DownloadError
RetryAllowed(attempt, max_retries) == attempt < max_retries

\* the sessions left open by one pass through the try block: session =
\* requests.Session() is created in it and close() is called on no path
SessionsAfterTry(open) == open + 1

FetchIdle ==
    [pc |-> "idle", url |-> NoUrl, max_retries |-> 0, timeout |-> 0, attempt |-> 0,
     requests |-> <<>>, fails |-> <<>>, sleeps |-> <<>>, events |-> <<>>,
     received |-> None, elapsed |-> 0, sessions |-> 0]

\* entry of download_with_retry up to the head of the for loop
FetchStart(url, max_retries, timeout) ==
    /\ fetch.pc \in {"idle", "returned", "raised"}
    /\ fetch' = [FetchIdle EXCEPT
                    !.pc = IF max_retries + 1 > 0 THEN "loop" ELSE "returned",
                    !.url = url, !.max_retries = max_retries, !.timeout = timeout]
    /\ UNCHANGED <<dest, exceptFetch>>

\* one iteration of `for attempt in range(max_retries + 1)`
FetchAttempt(out) ==
    /\ fetch.pc = "loop"
    /\ LET afterTry == DestAfterTry(dest, out)
           blocked == IF out.kind = "timeout" THEN fetch.timeout ELSE 0
           reqs == Append(fetch.requests, fetch.url)
       IN  IF out.kind = "ok"
           THEN /\ dest' = afterTry
                /\ fetch' = [fetch EXCEPT !.pc = "returned", !.requests = reqs,
                                !.events = fetch.events \o <<"get", "return">>,
                                !.sessions = SessionsAfterTry(@),
                                !.received = Some(out.chunks)]
           ELSE LET unl == IF IsNone(afterTry) THEN <<>> ELSE <<"unlink">>
                    retry == RetryAllowed(fetch.attempt, fetch.max_retries)
                    secs == SleepTime(fetch.attempt)
                IN  /\ dest' = CleanupPartial(afterTry)
                    /\ fetch' = [fetch EXCEPT
                         !.pc = IF retry THEN "loop" ELSE "raised",
                         !.attempt = IF retry THEN fetch.attempt + 1 ELSE fetch.attempt,
                         !.requests = reqs,
                         !.sessions = SessionsAfterTry(@),
                         !.fails = Append(fetch.fails, out.kind),
                         !.sleeps = IF retry THEN Append(fetch.sleeps, secs) ELSE fetch.sleeps,
                         !.events = fetch.events \o <<"get">> \o unl
                                       \o (IF retry THEN <<"sleep">> ELSE <<"raise">>),
                         !.elapsed = fetch.elapsed + blocked + (IF retry THEN secs ELSE 0)]
    /\ UNCHANGED exceptFetch

(***************************************************************************)
(* Files, digests and descriptors of the caching downloaders               *)
(***************************************************************************)

\* the response bodies the downloaders are tried on: at most one chunk
Bodies == {cs \in ChunkLists : Len(cs) <= 1}
Contents == {WriteChunks(cs) : cs \in Bodies}

\* hashlib.sha256(...).hexdigest(); the digest is taken as collision free
Sha256(content) == [alg |-> "sha256", of |-> content]

\* file_path.stat().st_size
Size(content) == Len(content)

\* a file of the cache directory: its bytes and whether its x bits are set
Files == [content : Contents, exec : BOOLEAN]

\* open(path, 'wb') and write: a new file is not executable, an existing one
\* is truncated and keeps its mode
WriteFile(old, content) ==
    Some([content |-> content, exec |-> IF IsNone(old) THEN FALSE ELSE Val(old).exec])

Names == {"p"}
\* the upstream content the declared checksums and sizes are taken from
Published == <<65>>
ShaChoices == {None, Some(Sha256(Published))}
SizeChoices == {None, Some(Size(Published))}

\* PackageInfo (destination is never read by download_package) and ScriptInfo
\* (interpreter and destination are never read by download_script; it has no
\* size_bytes, kept None here) as one record type
PackageInfos ==
    {[name |-> n, url |-> u, sha256 |-> h, size_bytes |-> z, executable |-> FALSE] :
        n \in Names, u \in Urls, h \in ShaChoices, z \in SizeChoices}
ScriptInfos ==
    {[name |-> n, url |-> u, sha256 |-> h, size_bytes |-> None, executable |-> x] :
        n \in Names, u \in Urls, h \in ShaChoices, x \in BOOLEAN}
NoInfo == [name |-> "", url |-> NoUrl, sha256 |-> None, size_bytes |-> None,
           executable |-> FALSE]

\* f"{script.name}.sh"
ShName(name) == CASE name = "p" -> "p.sh" [] OTHER -> "q.sh"

\* filename = Path(url_path).name or package.name
PkgCacheFile(package) ==
    IF package.url.file # "" THEN package.url.file ELSE package.name

\* filename = Path(url_path).name or f"{script.name}.sh"
ScriptCacheFile(script) ==
    IF script.url.file # "" THEN script.url.file ELSE ShName(script.name)

\* the file names of a downloader's cache directory
OwnFiles(cls) ==
    IF cls = "PackageDownloader" THEN {PkgCacheFile(d) : d \in PackageInfos}
    ELSE {ScriptCacheFile(d) : d \in ScriptInfos}
CacheFiles == OwnFiles("PackageDownloader") \cup OwnFiles("ScriptDownloader")

\* what one HTTP GET of a downloader can do
\*   error   : session.get or raise_for_status raises (reset, timeout, 4xx/5xx)
\*   partial : the destination was opened and the write of the body broke off
\*   ok      : the body arrived and was written
Responses ==
    {[kind |-> "error", chunks |-> <<>>], [kind |-> "partial", chunks |-> <<>>]}
    \cup {[kind |-> "ok", chunks |-> cs] : cs \in Bodies \ {<<>>}}
NoResponse == [kind |-> "none", chunks |-> <<>>]

(***************************************************************************)
(* PackageDownloader (packages.py)                                         *)
(***************************************************************************)

\* what a path of the file system holds: nothing, or a regular file with its
\* bytes, its x bits and whether this process may open it for reading
Absent == [kind |-> "absent", content |-> <<>>, exec |-> FALSE, readable |-> FALSE]
RegularFiles ==
    {[kind |-> "file", content |-> c, exec |-> x, readable |-> r] :
        c \in Contents, x \in BOOLEAN, r \in BOOLEAN}
Nodes == {Absent} \cup RegularFiles

\* the node as the Optional file of a cache directory
AsFile(node) ==
    IF node.kind = "absent" THEN None
    ELSE Some([content |-> node.content, exec |-> node.exec])

\* open(file_path, "rb") succeeds
OpenForRead(node) == node.kind = "file" /\ node.readable

\* the digest and size arguments _verify_file is tried with: undeclared, those
\* of the published content, and wrong ones
VerifyShaChoices == ShaChoices \cup {Some(Sha256(<<200>>))}
VerifySizeChoices == SizeChoices \cup {Some(Size(<<>>))}

\* a verification that skips the size check
VerifyFile_NoSize(file, expected_sha256, expected_size) ==
    IF IsNone(file) THEN FALSE
    ELSE IF ~IsNone(expected_sha256) /\ Sha256(Val(file).content) # Val(expected_sha256)
         THEN FALSE
    ELSE TRUE

\* a verification that skips the digest check
VerifyFile_NoSha(file, expected_sha256, expected_size) ==
    IF IsNone(file) THEN FALSE
    ELSE IF ~IsNone(expected_size) /\ Size(Val(file).content) # Val(expected_size)
         THEN FALSE
    ELSE TRUE

\* PackageDownloader._verify_file
VerifyFile(file, expected_sha256, expected_size) ==
    IF IsNone(file) THEN FALSE
    ELSE IF ~IsNone(expected_size) /\ Size(Val(file).content) # Val(expected_size)
         THEN FALSE
    ELSE IF ~IsNone(expected_sha256) /\ Sha256(Val(file).content) # Val(expected_sha256)
         THEN FALSE
    ELSE TRUE

\* PackageDownloader._verify_file on any path: exists() and stat() need no
\* read permission, _calculate_sha256 opens the file and lets the error of a
\* failed open leave _verify_file
VerifyFileCall(node, expected_sha256, expected_size) ==
    IF ~VerifyFile(AsFile(node), None, expected_size)
    THEN [value |-> FALSE, exc |-> "none"]
    ELSE IF IsNone(expected_sha256)
    THEN [value |-> TRUE, exc |-> "none"]
    ELSE IF ~OpenForRead(node)
    THEN [value |-> FALSE, exc |-> "PermissionError"]
    ELSE [value |-> VerifyFile(AsFile(node), expected_sha256, expected_size),
          exc |-> "none"]

\* PackageDownloader._download_file: one GET, the body streamed into the file
DownloadFile(old, resp) ==
    IF resp.kind = "error"
    THEN [file |-> old, exc |-> "RequestException"]
    ELSE [file |-> WriteFile(old, WriteChunks(resp.chunks)),
          exc |-> IF resp.kind = "partial" THEN "IOError" ELSE "none"]

\* a cache test that never reuses the cached file
PkgCacheCheck_Never(pre, force) == FALSE

\* a cache test that ignores force_download
PkgCacheCheck_IgnoreForce(pre, force) == ~IsNone(pre)

\* if not force_download and cache_path.exists()
PkgCacheCheck(pre, force) == ~force /\ ~IsNone(pre)

\* a cached file accepted on existence alone
PkgCacheValid_ExistsOnly(pre, package) == ~IsNone(pre)

\* a cached file reused only when a digest is declared and matches
PkgCacheValid_RequireSha(pre, package) ==
    ~IsNone(package.sha256) /\ VerifyFile(pre, package.sha256, package.size_bytes)

\* if self._verify_file(cache_path, package.sha256, package.size_bytes)
PkgCacheValid(pre, package) == VerifyFile(pre, package.sha256, package.size_bytes)

\* a failure path that leaves the file in the cache
RemoveInvalid_Keep(file) == file

\* a failure path that empties the file instead of removing it
RemoveInvalid_Truncate(file) ==
    IF IsNone(file) THEN None ELSE Some([Val(file) EXCEPT !.content = <<>>])

\* cache_path.unlink() of every failure path
RemoveInvalid(file) == None

\* PackageDownloader.download_package
DownloadPackage(c, package, force, resp) ==
    LET path == PkgCacheFile(package)
        pre == c[path]
        check == PkgCacheCheck(pre, force)
        hit == check /\ PkgCacheValid(pre, package)
        evicted == check /\ ~hit
        start == IF evicted THEN None ELSE pre
        dl == DownloadFile(start, resp)
        verified == VerifyFile(dl.file, package.sha256, package.size_bytes)
        base == [cache |-> c, path |-> path, evicted |-> evicted,
                 resp |-> resp, requests |-> <<package.url>>,
                 outcome |-> "returned", trace |-> <<>>]
    IN  IF hit
        THEN [base EXCEPT !.resp = NoResponse, !.requests = <<>>,
                          !.trace = <<"DECLARED", "CACHED">>]
        ELSE IF dl.exc # "none"
        THEN [base EXCEPT !.cache = [c EXCEPT ![path] = RemoveInvalid(dl.file)],
                          !.outcome = dl.exc,
                          !.trace = <<"DECLARED", "FETCHING", "FAILED">>]
        ELSE IF ~verified
        THEN [base EXCEPT !.cache = [c EXCEPT ![path] = RemoveInvalid(dl.file)],
                          !.outcome = "ValueError",
                          !.trace = <<"DECLARED", "FETCHING", "VERIFYING", "FAILED">>]
        ELSE [base EXCEPT !.cache = [c EXCEPT ![path] = dl.file],
                          !.trace = <<"DECLARED", "FETCHING", "VERIFYING", "CACHED">>]

(***************************************************************************)
(* ScriptDownloader (scripts.py)                                           *)
(***************************************************************************)

\* open(script_path, 'r', encoding='utf-8').read() succeeds: over Bytes, whose
\* only byte above 127 is a lead byte that no byte of Bytes can continue, the
\* content decodes exactly when every byte is ASCII
IsUtf8(content) == \A i \in DOMAIN content : content[i] < 128

\* ScriptValidator.validate_script_content(...)['is_valid']
ValidateScriptContent(file) == ~IsNone(file) /\ IsUtf8(Val(file).content)

\* ScriptDownloader._set_executable
SetExecutable(file) == Some([Val(file) EXCEPT !.exec = TRUE])

\* ScriptDownloader._download_script: one GET, response.content written
DownloadScriptFile(old, resp) ==
    IF resp.kind = "error"
    THEN [file |-> old, exc |-> "RequestException"]
    ELSE [file |-> WriteFile(old, WriteChunks(resp.chunks)),
          exc |-> IF resp.kind = "partial" THEN "IOError" ELSE "none"]

\* `if script.sha256:` -- a declared digest is a non-empty hex string
ShaDeclared(script) == ~IsNone(script.sha256)

\* a digest comparison that always succeeds
ScriptShaMatches_Always(file, script) == TRUE

\* actual_sha256 == script.sha256
ScriptShaMatches(file, script) == Sha256(Val(file).content) = Val(script.sha256)

\* should_validate and self.validator
ShouldValidate(validate, validate_scripts) ==
    (IF IsNone(validate) THEN validate_scripts ELSE Val(validate)) /\ validate_scripts

\* ScriptDownloader.download_script
DownloadScript(c, script, force, validate, validate_scripts, resp) ==
    LET path == ScriptCacheFile(script)
        pre == c[path]
        check == ~force /\ ~IsNone(pre)
        hit == check /\ (ShaDeclared(script) => ScriptShaMatches(pre, script))
        evicted == check /\ ~hit
        start == IF evicted THEN None ELSE pre
        dl == DownloadScriptFile(start, resp)
        shaOk == ShaDeclared(script) => ScriptShaMatches(dl.file, script)
        chmodded == IF script.executable THEN SetExecutable(dl.file) ELSE dl.file
        contentOk == ShouldValidate(validate, validate_scripts)
                        => ValidateScriptContent(chmodded)
        base == [cache |-> c, path |-> path, evicted |-> evicted,
                 resp |-> resp, requests |-> <<script.url>>,
                 outcome |-> "returned", trace |-> <<>>]
    IN  IF hit
        THEN [base EXCEPT
                !.cache = IF ShaDeclared(script) /\ script.executable
                          THEN [c EXCEPT ![path] = SetExecutable(pre)] ELSE c,
                !.resp = NoResponse, !.requests = <<>>,
                !.trace = <<"DECLARED", "CACHED">>]
        ELSE IF dl.exc # "none"
        THEN [base EXCEPT !.cache = [c EXCEPT ![path] = RemoveInvalid(dl.file)],
                          !.outcome = dl.exc,
                          !.trace = <<"DECLARED", "FETCHING", "FAILED">>]
        ELSE IF ~shaOk \/ ~contentOk
        THEN [base EXCEPT !.cache = [c EXCEPT ![path] = RemoveInvalid(dl.file)],
                          !.outcome = "ValueError",
                          !.trace = <<"DECLARED", "FETCHING", "VERIFYING", "FAILED">>]
        ELSE [base EXCEPT !.cache = [c EXCEPT ![path] = chmodded],
                          !.trace = <<"DECLARED", "FETCHING", "VERIFYING", "CACHED">>]

(***************************************************************************)
(* The calls made on a downloader                                          *)
(***************************************************************************)

\* largest list handed to download_packages / download_scripts
MaxBatch == 2

NoCall ==
    [op |-> "none", info |-> NoInfo, force |-> FALSE, validate |-> None,
     path |-> "", evicted |-> FALSE, resp |-> NoResponse,
     requests |-> <<>>, outcome |-> "none", trace |-> <<>>, repeat |-> FALSE]

\* the record of a finished call, kept until the next operation; repeat: the call before it was the same
\* operation on the same descriptor and returned, with nothing in between
CallRecord(op, info, force, validate, r) ==
    [op |-> op, info |-> info, force |-> force, validate |-> validate,
     path |-> r.path, evicted |-> r.evicted, resp |-> r.resp,
     requests |-> r.requests, outcome |-> r.outcome, trace |-> r.trace,
     repeat |-> call.op = op /\ call.info = info /\ call.outcome = "returned"]

\* what the caller of download_package / download_script receives on
\* success: `return cache_path`, a Path
ReturnValue(c) == [path |-> c.path]

NoBatch == [status |-> "idle", length |-> 0, parallel |-> FALSE, index |-> 0,
            results |-> <<>>, exc |-> "none"]

\* results = {} and the head of the for loop; parallel is accepted and never read
BatchStarted(n, parallel) ==
    [NoBatch EXCEPT !.status = IF n = 0 THEN "returned" ELSE "running", !.length = n,
                    !.parallel = parallel]

\* a batch loop that logs the error and carries on
BatchAfterError_Continue(b, exc) ==
    [b EXCEPT !.index = b.index + 1, !.exc = exc,
              !.status = IF b.index + 1 = b.length THEN "raised" ELSE "running"]

\* a batch loop that logs the error and returns what it has so far
BatchAfterError_Swallow(b, exc) ==
    [b EXCEPT !.index = b.index + 1, !.status = "returned"]

\* except Exception: log and raise
BatchAfterError(b, exc) ==
    [b EXCEPT !.index = b.index + 1, !.status = "raised", !.exc = exc]

\* results[name] = file_path; return results after the last item
BatchAfterReturn(b, name, path) ==
    [b EXCEPT !.index = b.index + 1,
              !.results = (name :> path) @@ b.results,
              !.status = IF b.index + 1 = b.length THEN "returned" ELSE "running"]

\* a direct call of download_package
DownloadPackageCall(package, force, resp) ==
    /\ downloader.cls = "PackageDownloader"
    /\ batch.status # "running"
    /\ \E r \in {DownloadPackage(cache, package, force, resp)} :
           /\ cache' = r.cache
           /\ call' = CallRecord("download_package", package, force, None, r)
    /\ batch' = NoBatch
    /\ UNCHANGED <<downloader, exceptResolver>>

\* a direct call of download_script
DownloadScriptCall(script, force, validate, resp) ==
    /\ downloader.cls = "ScriptDownloader"
    /\ batch.status # "running"
    /\ \E r \in {DownloadScript(cache, script, force, validate,
                               downloader.validate_scripts, resp)} :
           /\ cache' = r.cache
           /\ call' = CallRecord("download_script", script, force, validate, r)
    /\ batch' = NoBatch
    /\ UNCHANGED <<downloader, exceptResolver>>

\* download_packages(packages, parallel) / download_scripts(scripts) is entered
\* with a list of n descriptors; download_scripts has no parallel parameter
BatchStart(n, parallel) ==
    /\ batch.status # "running"
    /\ parallel => downloader.cls = "PackageDownloader"
    /\ batch' = BatchStarted(n, parallel)
    /\ call' = NoCall
    /\ UNCHANGED <<downloader, cache, exceptResolver>>

\* one iteration of the loop of download_packages: the next descriptor of the
\* list is resolved with the default force_download
DownloadPackagesStep(package, resp) ==
    /\ downloader.cls = "PackageDownloader"
    /\ batch.status = "running"
    /\ \E r \in {DownloadPackage(cache, package, FALSE, resp)} :
           /\ cache' = r.cache
           /\ call' = CallRecord("download_package", package, FALSE, None, r)
           /\ batch' = IF r.outcome = "returned"
                       THEN BatchAfterReturn(batch, package.name, r.path)
                       ELSE BatchAfterError(batch, r.outcome)
    /\ UNCHANGED <<downloader, exceptResolver>>

\* one iteration of the loop of download_scripts
DownloadScriptsStep(script, resp) ==
    /\ downloader.cls = "ScriptDownloader"
    /\ batch.status = "running"
    /\ \E r \in {DownloadScript(cache, script, FALSE, None,
                               downloader.validate_scripts, resp)} :
           /\ cache' = r.cache
           /\ call' = CallRecord("download_script", script, FALSE, None, r)
           /\ batch' = IF r.outcome = "returned"
                       THEN BatchAfterReturn(batch, script.name, r.path)
                       ELSE BatchAfterError(batch, r.outcome)
    /\ UNCHANGED <<downloader, exceptResolver>>

\* a file of the cache directory is written, replaced or removed from outside
\* the downloader (a pre-seeded cache, a corrupted or truncated file)
AlterCachedFile(f, file) ==
    /\ f \in OwnFiles(downloader.cls)
    /\ cache[f] # file
    /\ (~IsNone(file) /\ Val(file).exec) => downloader.cls = "ScriptDownloader"
    /\ cache' = [cache EXCEPT ![f] = file]
    /\ call' = NoCall
    /\ batch' = IF batch.status = "running" THEN batch ELSE NoBatch
    /\ UNCHANGED <<downloader, exceptResolver>>

(***************************************************************************)
(* AssetScanner (asset_scanner.py)                                         *)
(***************************************************************************)

DirNode == [kind |-> "dir", content |-> <<>>, exec |-> TRUE, readable |-> TRUE]
FileNode(content, readable) ==
    [kind |-> "file", content |-> content, exec |-> FALSE, readable |-> readable]

\* self.packages_dir, self.scripts_dir, self.iso_dir below base_dir
KindDir(kind) ==
    CASE kind = "deb" -> "packages" [] kind = "script" -> "scripts" [] OTHER -> "iso"
Kinds == {"deb", "script", "iso"}

\* the extensions scan_packages, scan_scripts and scan_iso_files pass
Extensions(kind) ==
    CASE kind = "deb" -> {".deb"}
      [] kind = "script" -> {".sh", ".py", ".pl", ".rb"}
      [] OTHER -> {".iso"}

\* file_path.suffix of the names used under base_dir
Suffix(name) ==
    CASE name \in {"a.deb", "b.deb", "c.deb", "d.deb"} -> ".deb"
      [] name = "n.txt" -> ".txt"
      [] name = "s.sh" -> ".sh"
      [] name = "u.iso" -> ".iso"
      [] OTHER -> ""

\* the paths below base_dir that are followed, and what each may hold: two
\* packages (one of them possibly unreadable), a text file and a directory
\* named like a package, with a package inside, one script (with one of two
\* contents) and one image; scripts/ and iso/ exist, packages/ may be missing
TreeChoices ==
    (<<"packages">> :> {Absent, DirNode})
    @@ (<<"packages", "a.deb">> :> {Absent, FileNode(<<65>>, TRUE), FileNode(<<65>>, FALSE)})
    @@ (<<"packages", "b.deb">> :> {Absent, FileNode(<<65>>, TRUE)})
    @@ (<<"packages", "n.txt">> :> {Absent, FileNode(<<65>>, TRUE)})
    @@ (<<"packages", "d.deb">> :> {Absent, DirNode})
    @@ (<<"packages", "d.deb", "c.deb">> :> {Absent, FileNode(<<65>>, TRUE)})
    @@ (<<"scripts">> :> {DirNode})
    @@ (<<"scripts", "s.sh">> :> {Absent, FileNode(<<65>>, TRUE), FileNode(<<200>>, TRUE)})
    @@ (<<"iso">> :> {DirNode})
    @@ (<<"iso", "u.iso">> :> {Absent, FileNode(<<200, 201>>, TRUE)})
TreePaths == DOMAIN TreeChoices
EmptyTree == [p \in TreePaths |-> IF Absent \in TreeChoices[p] THEN Absent ELSE DirNode]

Parent(path) == SubSeq(path, 1, Len(path) - 1)
\* the names directory.iterdir() yields
Children(t, dir) ==
    {p[Len(p)] : p \in {q \in TreePaths : Parent(q) = dir /\ t[q].kind # "absent"}}

\* every listing directory.iterdir() can yield for a kind's directory holding
\* some of its names, in any order
ListingOrders ==
    [kind \in Kinds |->
        LET names == {p[Len(p)] : p \in {q \in TreePaths : Parent(q) = <<KindDir(kind)>>}}
        IN  UNION {{o \in [1 .. n -> names] : \A i, j \in 1 .. n : i # j => o[i] # o[j]} :
                      n \in 0 .. Cardinality(names)}]

\* order is a listing of what the directory holds now
IsListing(names, order) ==
    /\ Len(order) = Cardinality(names)
    /\ \A i \in DOMAIN order : order[i] \in names

\* Path().cwd() of the process that runs the scanner
Cwds == {"/work", "/tmp"}

\* hashlib.md5(...).hexdigest(); the digest is taken as collision free
Md5(content) == [alg |-> "md5", of |-> content]

\* a scan without the extension filter
ExtensionAllowed_Any(name, extensions) == TRUE

\* not (extensions and file_path.suffix not in extensions)
ExtensionAllowed(name, extensions) == extensions = {} \/ Suffix(name) \in extensions

\* an error handler that lets the exception end the scan
FileError_Raise(found, exc) == [found EXCEPT !.exc = exc]

\* except Exception: logger.error(...); continue
FileError(found, exc) == found

\* the AssetInfo built for a file; path is relative to base_dir.parent
AssetInfoOf(path, node, file_type) ==
    [path |-> <<"local_assets">> \o path, name |-> path[Len(path)],
     size |-> Size(node.content), md5 |-> Md5(node.content),
     sha256 |-> Sha256(node.content), type |-> file_type, executable |-> node.exec]

\* AssetScanner._scan_directory: the loop over directory.iterdir() in the
\* order given; stat() needs no read permission, _calculate_hashes opens the file
RECURSIVE ScanEntries(_, _, _, _, _)
ScanEntries(t, dir, file_type, extensions, order) ==
    IF order = <<>> THEN [assets |-> <<>>, exc |-> "none"]
    ELSE LET found == ScanEntries(t, dir, file_type, extensions, Parent(order))
             path == Append(dir, order[Len(order)])
             node == t[path]
         IN  IF found.exc # "none" THEN found
             ELSE IF node.kind # "file" THEN found
             ELSE IF ~ExtensionAllowed(order[Len(order)], extensions) THEN found
             ELSE IF ~OpenForRead(node) THEN FileError(found, "PermissionError")
             ELSE [found EXCEPT
                      !.assets = Append(found.assets, AssetInfoOf(path, node, file_type))]

\* AssetScanner._scan_directory: a missing directory yields the empty list
ScanDirectory(t, file_type, order) ==
    IF t[<<KindDir(file_type)>>].kind # "dir" THEN [assets |-> <<>>, exc |-> "none"]
    ELSE ScanEntries(t, <<KindDir(file_type)>>, file_type, Extensions(file_type), order)

\* the listings a scan of a kind's directory can meet now
Listings(t, kind) ==
    LET names == Children(t, <<KindDir(kind)>>)
    IN  {o \in ListingOrders[kind] : IsListing(names, o)}
\* the listings one scan_all can meet, one per kind directory
ScanOrders(t) ==
    [deb : Listings(t, "deb"), script : Listings(t, "script"), iso : Listings(t, "iso")]

\* AssetScanner.scan_all
ScanAll(t, orders) ==
    LET p == ScanDirectory(t, "deb", orders.deb)
        c == ScanDirectory(t, "script", orders.script)
        i == ScanDirectory(t, "iso", orders.iso)
    IN  [packages |-> p.assets, scripts |-> c.assets, iso_files |-> i.assets,
         exc |-> IF p.exc # "none" THEN p.exc ELSE IF c.exc # "none" THEN c.exc ELSE i.exc]

\* a manifest entry that keeps the file name where the path belongs
ManifestEntry_NameAsPath(asset) ==
    [path |-> <<asset.name>>, name |-> asset.name, size |-> asset.size,
     md5 |-> asset.md5, sha256 |-> asset.sha256, type |-> asset.type]

\* the dictionary save_asset_manifest writes for an AssetInfo (a script's
\* entry has "executable" as well, which verify_assets never reads)
ManifestEntry(asset) ==
    [path |-> asset.path, name |-> asset.name, size |-> asset.size,
     md5 |-> asset.md5, sha256 |-> asset.sha256, type |-> asset.type]

\* a summary whose byte total counts the packages only
ManifestOf_PackageBytesOnly(assets, cwd) ==
    LET entries(list) == [i \in DOMAIN list |-> ManifestEntry(list[i])]
    IN  [scan_time |-> cwd, base_directory |-> "local_assets",
         summary |-> [total_packages |-> Len(assets.packages),
                      total_scripts |-> Len(assets.scripts),
                      total_iso_files |-> Len(assets.iso_files),
                      total_size_bytes |->
                          SumSeq([i \in DOMAIN assets.packages |-> assets.packages[i].size])],
         packages |-> entries(assets.packages), scripts |-> entries(assets.scripts),
         iso_files |-> entries(assets.iso_files)]

\* the document save_asset_manifest dumps, as json.load returns it: strings,
\* integers and lists come back as written
ManifestOf(assets, cwd) ==
    LET entries(list) == [i \in DOMAIN list |-> ManifestEntry(list[i])]
        sizes(list) == SumSeq([i \in DOMAIN list |-> list[i].size])
    IN  [scan_time |-> cwd, base_directory |-> "local_assets",
         summary |-> [total_packages |-> Len(assets.packages),
                      total_scripts |-> Len(assets.scripts),
                      total_iso_files |-> Len(assets.iso_files),
                      total_size_bytes |-> sizes(assets.packages) + sizes(assets.scripts)
                                           + sizes(assets.iso_files)],
         packages |-> entries(assets.packages), scripts |-> entries(assets.scripts),
         iso_files |-> entries(assets.iso_files)]

\* a verification that trusts the digests of the manifest: only files that
\* are gone are reported
VerifyEntries_MissingOnly(entries, current, missing, mismatch) ==
    LET gone(e) == \A i \in DOMAIN current : current[i].path # e.path
        lost == SelectSeq(entries, gone)
    IN  [i \in DOMAIN lost |-> [what |-> missing, path |-> lost[i].path]]

\* verify_assets, one of its three loops: the manifest entries by path
\* against the current assets by path
RECURSIVE VerifyEntries(_, _, _, _)
VerifyEntries(entries, current, missing, mismatch) ==
    IF entries = <<>> THEN <<>>
    ELSE LET e == Head(entries)
             now == {i \in DOMAIN current : current[i].path = e.path}
         IN  (IF now = {} THEN <<[what |-> missing, path |-> e.path]>>
              ELSE IF \E i \in now : current[i].sha256 # e.sha256
                   THEN <<[what |-> mismatch, path |-> e.path]>>
              ELSE <<>>)
             \o VerifyEntries(Tail(entries), current, missing, mismatch)

\* AssetScanner.verify_assets
VerifyAssetsErrors(m, current) ==
    IF IsNone(m) THEN <<[what |-> "Manifest file not found", path |-> <<"local_assets", "manifest.json">>]>>
    ELSE VerifyEntries(Val(m).packages, current.packages,
                       "Package missing", "Package checksum mismatch")
         \o VerifyEntries(Val(m).scripts, current.scripts,
                          "Script missing", "Script checksum mismatch")
         \o VerifyEntries(Val(m).iso_files, current.iso_files,
                          "ISO file missing", "ISO file checksum mismatch")

NoScan ==
    [op |-> "none", kind |-> "", assets |-> <<>>, errors |-> <<>>, exc |-> "none",
     file |-> "", keys |-> {}, scanned |-> FALSE]

\* what verify_assets can find at manifest_path: no file, a file whose open
\* fails, a file that is not JSON, or a JSON object with some of the top-level
\* lists that save_asset_manifest had written
ManifestFileKinds == {"missing", "unreadable", "invalid_json", "object"}
ManifestKeys == {"packages", "scripts", "iso_files"}
NotFoundError ==
    [what |-> "Manifest file not found", path |-> <<"local_assets", "manifest.json">>]
ReadError == [what |-> "Error reading manifest", path |-> <<>>]

\* a handler that returns the read error alone
VerifyAssetsFile_DropCollected(kind, keys, doc, current) ==
    [errors |-> IF kind = "missing" THEN <<NotFoundError>>
                ELSE IF kind = "object" /\ {"packages", "scripts"} \subseteq keys
                THEN VerifyAssetsErrors(Some(doc), current)
                ELSE <<ReadError>>,
     scanned |-> kind = "object", exc |-> "none"]

\* AssetScanner.verify_assets on such a file: the exists() test, then the try
\* block (open, json.load, scan_all, manifest['packages'], manifest['scripts'],
\* the optional manifest['iso_files']) with `except Exception` appending to
\* the errors collected so far
VerifyAssetsFile(kind, keys, doc, current) ==
    LET pk == VerifyEntries(doc.packages, current.packages,
                            "Package missing", "Package checksum mismatch")
        sc == VerifyEntries(doc.scripts, current.scripts,
                            "Script missing", "Script checksum mismatch")
        iso == VerifyEntries(doc.iso_files, current.iso_files,
                             "ISO file missing", "ISO file checksum mismatch")
    IN  IF kind = "missing"
        THEN [errors |-> <<NotFoundError>>, scanned |-> FALSE, exc |-> "none"]
        ELSE IF kind \in {"unreadable", "invalid_json"}
        THEN [errors |-> <<ReadError>>, scanned |-> FALSE, exc |-> "none"]
        ELSE IF "packages" \notin keys
        THEN [errors |-> <<ReadError>>, scanned |-> TRUE, exc |-> "none"]
        ELSE IF "scripts" \notin keys
        THEN [errors |-> pk \o <<ReadError>>, scanned |-> TRUE, exc |-> "none"]
        ELSE IF "iso_files" \notin keys
        THEN [errors |-> pk \o sc, scanned |-> TRUE, exc |-> "none"]
        ELSE [errors |-> pk \o sc \o iso, scanned |-> TRUE, exc |-> "none"]
\* nothing changed under base_dir since manifest.json was written; else the
\* one file removed, or "changed" for anything more
NoEdits == [state |-> "unchanged", unlinked |-> <<>>]

\* a file or directory below base_dir is created, rewritten, chmod-ed or
\* removed (a directory only when empty) from outside the scanner
PutNode(path, node) ==
    /\ node # tree[path]
    /\ Len(path) > 1 => tree[Parent(path)].kind = "dir"
    /\ tree[path].kind = "dir" => Children(tree, path) = {}
    /\ tree' = [tree EXCEPT ![path] = node]
    /\ edits' = IF IsNone(manifest) THEN NoEdits
                 ELSE IF edits = NoEdits /\ tree[path].kind = "file" /\ node.kind = "absent"
                 THEN [state |-> "unlinked", unlinked |-> path]
                 ELSE [state |-> "changed", unlinked |-> <<>>]
    /\ scan' = NoScan
    /\ UNCHANGED <<manifest, exceptScanner>>

\* scan_packages() / scan_scripts() / scan_iso_files()
ScanKind(kind) ==
    /\ \E order \in Listings(tree, kind) :
          LET r == ScanDirectory(tree, kind, order)
          IN  scan' = [NoScan EXCEPT !.op = "scan", !.kind = kind,
                                     !.assets = r.assets, !.exc = r.exc]
    /\ UNCHANGED <<tree, manifest, edits, exceptScanner>>

\* save_asset_manifest(): scan_all, then manifest.json is written
SaveAssetManifest(cwd) ==
    /\ \E orders \in ScanOrders(tree) :
          LET current == ScanAll(tree, orders)
          IN  /\ manifest' = Some(ManifestOf(current, cwd))
              /\ scan' = [NoScan EXCEPT !.op = "save_asset_manifest", !.exc = current.exc]
    /\ edits' = NoEdits
    /\ UNCHANGED <<tree, exceptScanner>>

\* verify_assets(): the manifest is read and compared with a new scan_all
VerifyAssets ==
    /\ \E orders \in ScanOrders(tree) :
          LET current == ScanAll(tree, orders)
          IN  scan' = [NoScan EXCEPT !.op = "verify_assets",
                                     !.errors = VerifyAssetsErrors(manifest, current),
                                     !.exc = IF IsNone(manifest) THEN "none" ELSE current.exc]
    /\ UNCHANGED <<tree, manifest, edits, exceptScanner>>

\* verify_assets() when manifest.json, since it was saved, has become
\* unreadable, is no longer JSON, or has lost some of its top-level keys
VerifyAssetsAt(kind, keys) ==
    /\ kind = "missing" <=> IsNone(manifest)
    /\ kind # "object" => keys = {}
    /\ \E orders \in ScanOrders(tree) :
          LET current == ScanAll(tree, orders)
              doc == IF IsNone(manifest) THEN ManifestOf(ScanAll(EmptyTree, orders), "")
                     ELSE Val(manifest)
              r == VerifyAssetsFile(kind, keys, doc, current)
          IN  scan' = [NoScan EXCEPT !.op = "verify_assets", !.file = kind, !.keys = keys,
                                     !.errors = r.errors, !.scanned = r.scanned,
                                     !.exc = r.exc]
    /\ UNCHANGED <<tree, manifest, edits, exceptScanner>>

\* manifest.json is removed
RemoveManifest ==
    /\ ~IsNone(manifest)
    /\ manifest' = None
    /\ scan' = NoScan
    /\ edits' = NoEdits
    /\ UNCHANGED <<tree, exceptScanner>>

(***************************************************************************)
(* FirstBootScript (models.py:265-337)                                     *)
(***************************************************************************)

\* the strings given as url, with what str_strip_whitespace and urlparse
\* make of each
UrlInputs == {"", "http://h/s.sh", " http://h/s.sh ", "ftp://h/s.sh", "http:///s.sh"}
\* the strings given as local_path; "/l/s.sh" is a regular file, "/l/dir"
\* and "" (Path("") is the working directory) are directories
PathInputs == {"", "/l/s.sh", "/l/none.sh", "/l/dir"}
\* the strings given as checksum: their length, whether every character is
\* a hexadecimal digit, and whether a letter is in upper case
ChecksumInputs ==
    {[len |-> 64, hex |-> TRUE, upper |-> FALSE], [len |-> 64, hex |-> TRUE, upper |-> TRUE],
     [len |-> 64, hex |-> FALSE, upper |-> FALSE], [len |-> 3, hex |-> TRUE, upper |-> FALSE]}

\* str_strip_whitespace=True
Strip(v) == IF v = " http://h/s.sh " THEN "http://h/s.sh" ELSE v
Stripped(o) == IF IsNone(o) THEN o ELSE Some(Strip(Val(o)))
\* urlparse(v).scheme and urlparse(v).netloc
UrlScheme(v) ==
    CASE v \in {"http://h/s.sh", "http:///s.sh"} -> "http" [] v = "ftp://h/s.sh" -> "ftp"
      [] OTHER -> ""
UrlNetloc(v) == CASE v \in {"http://h/s.sh", "ftp://h/s.sh"} -> "h" [] OTHER -> ""
\* what lies at Path(v)
PathKind(v) ==
    CASE v = "/l/s.sh" -> "file" [] v \in {"/l/dir", ""} -> "dir" [] OTHER -> "absent"

\* FirstBootScript.validate_url: TRUE when it returns, FALSE when it raises
ValidateUrl(v) ==
    IsNone(v) \/ (UrlScheme(Val(v)) \in {"http", "https"} /\ UrlNetloc(Val(v)) # "")

\* FirstBootScript.validate_local_path: path.exists(), then path.is_file()
ValidateLocalPath(v) == IsNone(v) \/ PathKind(Val(v)) = "file"
\* the file system accesses validate_local_path makes
LocalPathAccesses(v) ==
    IF IsNone(v) THEN <<>>
    ELSE IF PathKind(Val(v)) = "absent" THEN <<[op |-> "exists", path |-> Val(v)]>>
    ELSE <<[op |-> "exists", path |-> Val(v)], [op |-> "is_file", path |-> Val(v)]>>

\* FirstBootScript.validate_checksum: the value it returns (v.lower())
ValidateChecksum(v) == IsNone(v) \/ (Val(v).len = 64 /\ Val(v).hex)
LowerChecksum(v) == IF IsNone(v) THEN v ELSE Some([Val(v) EXCEPT !.upper = FALSE])

\* a string that is not None and not empty
Truthy(v) == ~IsNone(v) /\ Val(v) # ""

\* a source check that lets a descriptor with both sources through
ValidateScriptSource_AllowBoth(url, local_path) == Truthy(url) \/ Truthy(local_path)

\* FirstBootScript.validate_script_source: TRUE when it returns self
ValidateScriptSource(url, local_path) ==
    /\ ~(~Truthy(url) /\ ~Truthy(local_path))
    /\ ~(Truthy(url) /\ Truthy(local_path))

NoScript ==
    [op |-> "none", given |-> [url |-> None, local_path |-> None, checksum |-> None],
     url |-> None, local_path |-> None, checksum |-> None,
     accepted |-> FALSE, errors |-> {}, io |-> <<>>]

\* FirstBootScript(url=..., local_path=..., checksum=...): the strings are
\* stripped, every given field goes through its validator and the errors are
\* collected; validate_script_source runs when no field failed
FirstBootScript(url, local_path, checksum) ==
    LET u == Stripped(url)
        l == Stripped(local_path)
        fields == (IF ValidateUrl(u) THEN {} ELSE {"url"})
                  \cup (IF ValidateLocalPath(l) THEN {} ELSE {"local_path"})
                  \cup (IF ValidateChecksum(checksum) THEN {} ELSE {"checksum"})
        errors == IF fields # {} THEN fields
                  ELSE IF ValidateScriptSource(u, l) THEN {} ELSE {"script_source"}
    IN  /\ descriptor' = [op |-> "FirstBootScript",
                      given |-> [url |-> url, local_path |-> local_path, checksum |-> checksum],
                      url |-> IF errors = {} THEN u ELSE None,
                      local_path |-> IF errors = {} THEN l ELSE None,
                      checksum |-> IF errors = {} THEN LowerChecksum(checksum) ELSE None,
                      accepted |-> errors = {}, errors |-> errors,
                      io |-> LocalPathAccesses(l)]
        /\ UNCHANGED exceptConfig

(***************************************************************************)
(* cleanup_cache and clean_directory (packages.py:250-263,                 *)
(* scripts.py:353-366, utils.py:207-232)                                   *)
(***************************************************************************)

SecondsPerDay == 86400

\* st_mtime of the entries, time.time() of the calls and max_age_days
Mtimes == {0, 86400, 100000}
Nows == {172800, 186400}
MaxAgeDays == 0 .. 2

\* the entries of the cache directory that are followed: two files, a
\* subdirectory and a file in it
CleanPaths == {<<"a.deb">>, <<"b.deb">>, <<"sub">>, <<"sub", "c.deb">>}
NoEntry == [kind |-> "absent", mtime |-> 0]
EntryChoices(path) ==
    {NoEntry} \cup [kind : {IF path = <<"sub">> THEN "dir" ELSE "file"}, mtime : Mtimes]
EmptyCacheDir == [exists |-> TRUE, entries |-> [p \in CleanPaths |-> NoEntry]]

\* cutoff_time = time.time() - (max_age_days * 24 * 3600)
CutoffTime(now, max_age_days) == now - (max_age_days * 24 * 3600)

\* a sweep that also removes the files as old as the cutoff
OldFiles_Inclusive(d, cutoff) ==
    {p \in CleanPaths :
        Len(p) = 1 /\ d.entries[p].kind = "file" /\ d.entries[p].mtime <= cutoff}

\* the entries iterdir() / glob("*") yields for which
\* file_path.is_file() and file_path.stat().st_mtime < cutoff_time
OldFiles(d, cutoff) ==
    {p \in CleanPaths :
        Len(p) = 1 /\ d.entries[p].kind = "file" /\ d.entries[p].mtime < cutoff}

\* file_path.unlink() for each of them
Unlinked(d, paths) ==
    [d EXCEPT !.entries = [p \in CleanPaths |-> IF p \in paths THEN NoEntry ELSE @[p]]]

NoPurge == [op |-> "none", now |-> 0, max_age_days |-> 0, before |-> EmptyCacheDir,
            value |-> None, exc |-> "none"]

\* an entry of the cache directory is written, touched or removed (a
\* directory only when empty), or the cache directory itself is removed or made
PutEntry(path, entry) ==
    /\ cachedir.exists
    /\ entry # cachedir.entries[path]
    /\ Len(path) > 1 => cachedir.entries[Parent(path)].kind = "dir"
    /\ (path = <<"sub">> /\ entry.kind = "absent") =>
          cachedir.entries[<<"sub", "c.deb">>].kind = "absent"
    /\ cachedir' = [cachedir EXCEPT !.entries[path] = entry]
    /\ purge' = NoPurge
    /\ UNCHANGED exceptCleanup

MakeOrRemoveCacheDir ==
    /\ cachedir.entries = EmptyCacheDir.entries
    /\ cachedir' = [cachedir EXCEPT !.exists = ~@]
    /\ purge' = NoPurge
    /\ UNCHANGED exceptCleanup

\* PackageDownloader.cleanup_cache / ScriptDownloader.cleanup_cache at time
\* now: iterdir() of a missing cache_dir raises
CleanupCache(now, max_age_days) ==
    /\ LET old == OldFiles(cachedir, CutoffTime(now, max_age_days))
       IN  /\ cachedir' = IF cachedir.exists THEN Unlinked(cachedir, old) ELSE cachedir
           /\ purge' = [op |-> "cleanup_cache", now |-> now, max_age_days |-> max_age_days,
                        before |-> cachedir, value |-> None,
                        exc |-> IF cachedir.exists THEN "none" ELSE "FileNotFoundError"]
    /\ UNCHANGED exceptCleanup

\* clean_directory(directory, max_age_days) at time now, pattern left at "*"
CleanDirectory(now, max_age_days) ==
    /\ LET old == IF cachedir.exists
                  THEN OldFiles(cachedir, CutoffTime(now, max_age_days)) ELSE {}
       IN  /\ cachedir' = Unlinked(cachedir, old)
           /\ purge' = [op |-> "clean_directory", now |-> now, max_age_days |-> max_age_days,
                        before |-> cachedir, value |-> Some(Cardinality(old)),
                        exc |-> "none"]
    /\ UNCHANGED exceptCleanup

(***************************************************************************)
(* FAIBuilder.prepare_local_assets (build.py:245-307)                      *)
(***************************************************************************)

\* the files the local paths of the configuration name, with their content;
\* the validators of the configuration found each of them
LocalSources ==
    ("/l/a.deb" :> <<65>>) @@ ("/l/s.sh" :> <<65>>) @@ ("/l/t.sh" :> <<200>>)
\* src_path.name
BaseName(path) ==
    CASE path = "/l/a.deb" -> "a.deb" [] path = "/l/s.sh" -> "s.sh" [] OTHER -> "t.sh"
\* the FirstBootScript descriptors with a local_path: the checksum is not
\* declared, is the digest of the file, or is another digest
LocalScripts ==
    [local_path : {"/l/s.sh", "/l/t.sh"},
     checksum : {None, Some(Sha256(<<65>>)), Some(Sha256(<<200>>))}]
\* config.packages.deb_local_paths
DebLocalPaths == {<<>>, <<"/l/a.deb">>}
\* most local scripts in a configuration
MaxLocalScripts == 2
LocalNames == {"a.deb", "s.sh", "t.sh"}
CopyResults == {"copied", "FileNotFoundError"}

NotPrepared ==
    [status |-> "idle", scripts |-> <<>>, index |-> 0,
     cache |-> [f \in LocalNames |-> None], exc |-> "none"]

\* shutil.copy2(src_path, dst_path)
Copy2(c, path) ==
    [c EXCEPT ![BaseName(path)] = Some([content |-> LocalSources[path], exec |-> FALSE])]
\* dst_path.chmod(0o755)
Chmod755(c, name) == [c EXCEPT ![name] = Some([Val(@) EXCEPT !.exec = TRUE])]

\* prepare_local_assets is entered: the packages of deb_local_paths are
\* copied, then the loop over the scripts with a local_path starts
PrepareLocalStart(debs, scripts, result) ==
    /\ prepared.status \in {"idle", "returned", "raised"}
    /\ debs = <<>> => result = "copied"
    /\ prepared' =
          IF result # "copied"
          THEN [NotPrepared EXCEPT !.status = "raised", !.scripts = scripts, !.exc = result]
          ELSE [NotPrepared EXCEPT
                   !.status = IF scripts = <<>> THEN "returned" ELSE "running",
                   !.scripts = scripts, !.index = 1,
                   !.cache = IF debs = <<>> THEN @ ELSE Copy2(@, debs[1])]
    /\ UNCHANGED exceptLocal

\* one turn of `for script in local_scripts`: copy2, then chmod; the
\* checksum of the descriptor is not read
PrepareLocalScript(result) ==
    /\ prepared.status = "running"
    /\ LET script == prepared.scripts[prepared.index]
           last == prepared.index = Len(prepared.scripts)
       IN  prepared' =
             IF result # "copied"
             THEN [prepared EXCEPT !.status = "raised", !.exc = result]
             ELSE [prepared EXCEPT
                      !.cache = Chmod755(Copy2(@, script.local_path),
                                         BaseName(script.local_path)),
                      !.index = @ + 1,
                      !.status = IF last THEN "returned" ELSE "running"]
    /\ UNCHANGED exceptLocal

(***************************************************************************)
(* ScriptDownloader.create_script_info_from_config (scripts.py:328-351)    *)
(***************************************************************************)

\* the validated FirstBootScript objects of config.scripts: the attributes
\* of each are the four fields of the model (extra="ignore"); one source is set
ConfigScripts ==
    {c \in [url : {None, Some("http://h/s.sh"), Some("http://h/t.sh")},
            local_path : {None, Some("/l/s.sh")},
            type : {"automated", "manual"},
            checksum : {None, Some(Sha256(<<65>>)), Some(Sha256(<<200>>))}] :
        ValidateScriptSource(c.url, c.local_path)}
\* most scripts in config.scripts
MaxConfigScripts == 2

\* hasattr(obj, name) and getattr(obj, name, default)
HasAttr(obj, name) == name \in DOMAIN obj
GetAttr(obj, name, default) == IF HasAttr(obj, name) THEN obj[name] ELSE default

\* ScriptInfo(name=script_config.name, url=script_config.url,
\* sha256=getattr(script_config, 'sha256', None), executable=getattr(...,
\* True), ...): reading an attribute the object does not have raises
ScriptInfoOf(script_config) ==
    IF ~HasAttr(script_config, "name") THEN [value |-> None, exc |-> "AttributeError"]
    ELSE [value |-> Some([name |-> script_config.name, url |-> Val(script_config.url),
                          sha256 |-> GetAttr(script_config, "sha256", None),
                          executable |-> GetAttr(script_config, "executable", TRUE)]),
          exc |-> "none"]

\* the loop of create_script_info_from_config over config.scripts
RECURSIVE ScriptInfosOf(_)
ScriptInfosOf(scripts) ==
    IF scripts = <<>> THEN [value |-> <<>>, exc |-> "none"]
    ELSE LET first == Head(scripts)
             rest == ScriptInfosOf(Tail(scripts))
         IN  IF ~(HasAttr(first, "url") /\ Truthy(first.url)) THEN rest
             ELSE IF ScriptInfoOf(first).exc # "none"
             THEN [value |-> <<>>, exc |-> ScriptInfoOf(first).exc]
             ELSE IF rest.exc # "none" THEN rest
             ELSE [value |-> <<Val(ScriptInfoOf(first).value)>> \o rest.value,
                   exc |-> "none"]

NoInfos == [op |-> "none", scripts |-> <<>>, value |-> <<>>, exc |-> "none"]

\* script_downloader.create_script_info_from_config(config.first_boot)
CreateScriptInfoFromConfig(scripts) ==
    /\ LET r == ScriptInfosOf(scripts)
       IN  infos' = [op |-> "create_script_info_from_config", scripts |-> scripts,
                     value |-> r.value, exc |-> r.exc]
    /\ UNCHANGED exceptInfo

NoVerify ==
    [op |-> "none", node |-> Absent, expected_sha256 |-> None, expected_size |-> None,
     value |-> FALSE, exc |-> "none"]

\* a call of _verify_file(file_path, expected_sha256, expected_size)
VerifyFileAction(node, expected_sha256, expected_size) ==
    /\ LET r == VerifyFileCall(node, expected_sha256, expected_size)
       IN  verify' = [op |-> "_verify_file", node |-> node,
                      expected_sha256 |-> expected_sha256,
                      expected_size |-> expected_size,
                      value |-> r.value, exc |-> r.exc]
    /\ UNCHANGED exceptVerifier

(***************************************************************************)
(* Two PackageDownloader instances on one cache path (packages.py:143-189, *)
(* 109-141).  download_package takes no lock, so every file-system call of *)
(* one instance is a step and the steps of the two instances interleave.   *)
(***************************************************************************)

Instances == {1, 2}
Peer(i) == 3 - i
Inodes == 1 .. 3

\* the body the server sends for the url, in two chunks
RaceBody == <<<<1>>, <<2>>>>
RaceContent == WriteChunks(RaceBody)
RaceShas == {None, Some(Sha256(RaceContent)), Some(Sha256(<<9>>))}
RaceResponses == {"error", "ok"}

\* the file at the cache path as _verify_file sees it
RaceFile(f) ==
    IF IsNone(f) THEN None ELSE Some([content |-> Val(f).content, exec |-> FALSE])

\* an open for append, which keeps the bytes already in the file
OpenWb_Append(f, ino) ==
    IF IsNone(f) THEN [file |-> Some([ino |-> ino, content |-> <<>>]), offset |-> 0]
    ELSE [file |-> f, offset |-> Len(Val(f).content)]

\* open(destination, 'wb'): a missing file is created, an existing one is
\* truncated in place; the position is 0
OpenWb(f, ino) ==
    IF IsNone(f) THEN [file |-> Some([ino |-> ino, content |-> <<>>]), offset |-> 0]
    ELSE [file |-> Some([Val(f) EXCEPT !.content = <<>>]), offset |-> 0]

\* f.write(chunk) at the position of this file object; bytes between the end
\* of a file truncated by somebody else and the position read as zero
WriteAt(content, offset, chunk) ==
    LET end == offset + Len(chunk)
        n == IF Len(content) > end THEN Len(content) ELSE end
    IN  [k \in 1 .. n |->
            IF k > offset /\ k <= end THEN chunk[k - offset]
            ELSE IF k <= Len(content) THEN content[k] ELSE 0]

RaceIdle ==
    [pc |-> "idle", sha256 |-> None, force_download |-> FALSE, fd |-> 0,
     offset |-> 0, todo |-> <<>>, found |-> None, peer |-> "idle", exc |-> "none"]

\* download_package(package, force_download) is called on instance i
RaceCall(i, sha256, force_download) ==
    /\ racers[i].pc \in {"idle", "returned", "raised"}
    /\ racers' = [racers EXCEPT ![i] =
                    [RaceIdle EXCEPT !.pc = IF force_download THEN "get" ELSE "exists",
                                     !.sha256 = sha256,
                                     !.force_download = force_download]]
    /\ UNCHANGED shared
    /\ UNCHANGED exceptRace

\* if not force_download and cache_path.exists()
RaceExists(i) ==
    /\ racers[i].pc = "exists"
    /\ racers' = [racers EXCEPT ![i].pc = IF IsNone(shared) THEN "get" ELSE "check"]
    /\ UNCHANGED shared
    /\ UNCHANGED exceptRace

\* if self._verify_file(cache_path, package.sha256, package.size_bytes)
RaceCheck(i) ==
    /\ racers[i].pc = "check"
    /\ racers' = [racers EXCEPT ![i].pc =
                    IF VerifyFile(RaceFile(shared), racers[i].sha256, None)
                    THEN "return" ELSE "evict"]
    /\ UNCHANGED shared
    /\ UNCHANGED exceptRace

\* cache_path.unlink() of the invalid cached file, outside the try block
RaceEvict(i) ==
    /\ racers[i].pc = "evict"
    /\ IF IsNone(shared)
       THEN /\ racers' = [racers EXCEPT ![i].pc = "raised",
                                        ![i].exc = "FileNotFoundError"]
            /\ UNCHANGED shared
       ELSE /\ shared' = None
            /\ racers' = [racers EXCEPT ![i].pc = "get"]
    /\ UNCHANGED exceptRace

\* _download_file: self.session.get(url, stream=True); raise_for_status()
RaceGet(i, resp) ==
    /\ racers[i].pc = "get"
    /\ racers' = [racers EXCEPT
                    ![i].pc = IF resp = "error" THEN "cleanup" ELSE "open",
                    ![i].exc = IF resp = "error" THEN "RequestException" ELSE "none"]
    /\ UNCHANGED shared
    /\ UNCHANGED exceptRace

\* _download_file: with open(destination, 'wb') as f
RaceOpen(i) ==
    /\ racers[i].pc = "open"
    /\ LET used == {racers[j].fd : j \in Instances}
           ino == CHOOSE n \in Inodes : n \notin used
           o == OpenWb(shared, ino)
       IN  /\ shared' = o.file
           /\ racers' = [racers EXCEPT ![i].pc = "write",
                                       ![i].fd = Val(o.file).ino,
                                       ![i].offset = o.offset,
                                       ![i].todo = RaceBody]
    /\ UNCHANGED exceptRace

\* _download_file: f.write(chunk) for the next chunk; the bytes go to the
\* file this instance opened, which an unlink has detached from the path
RaceWrite(i) ==
    /\ racers[i].pc = "write"
    /\ LET chunk == Head(racers[i].todo)
           rest == Tail(racers[i].todo)
       IN  /\ shared' =
                IF ~IsNone(shared) /\ Val(shared).ino = racers[i].fd
                THEN Some([Val(shared) EXCEPT
                              !.content = WriteAt(@, racers[i].offset, chunk)])
                ELSE shared
           /\ racers' = [racers EXCEPT
                           ![i].pc = IF rest = <<>> THEN "verify" ELSE "write",
                           ![i].fd = IF rest = <<>> THEN 0 ELSE @,
                           ![i].offset = @ + Len(chunk),
                           ![i].todo = rest]
    /\ UNCHANGED exceptRace

\* if not self._verify_file(cache_path, ...) after the download
RaceVerify(i) ==
    /\ racers[i].pc = "verify"
    /\ racers' = [racers EXCEPT ![i].pc =
                    IF VerifyFile(RaceFile(shared), racers[i].sha256, None)
                    THEN "return" ELSE "reject"]
    /\ UNCHANGED shared
    /\ UNCHANGED exceptRace

\* cache_path.unlink(); raise ValueError(...), inside the try block
RaceReject(i) ==
    /\ racers[i].pc = "reject"
    /\ shared' = None
    /\ racers' = [racers EXCEPT
                    ![i].pc = "cleanup",
                    ![i].exc = IF IsNone(shared) THEN "FileNotFoundError"
                               ELSE "ValueError"]
    /\ UNCHANGED exceptRace

\* except Exception: if cache_path.exists(): cache_path.unlink(); raise
RaceCleanup(i) ==
    /\ racers[i].pc = "cleanup"
    /\ shared' = None
    /\ racers' = [racers EXCEPT ![i].pc = "raised"]
    /\ UNCHANGED exceptRace

\* return cache_path; `found` and `peer` record what the caller is handed:
\* the file at the path and where the other instance stands at that moment
RaceReturn(i) ==
    /\ racers[i].pc = "return"
    /\ racers' = [racers EXCEPT ![i].pc = "returned",
                                ![i].found = RaceFile(shared),
                                ![i].peer = racers[Peer(i)].pc]
    /\ UNCHANGED shared
    /\ UNCHANGED exceptRace

(***************************************************************************)
(* Progress reporting of the two streaming loops (utils.py:105-121,        *)
(* packages.py:124-141), followed chunk by chunk                              *)
(***************************************************************************)

StreamingFunctions == {"download_with_retry", "_download_file"}

\* int(response.headers.get('content-length', 0)); a server that declares
\* the length declares the length of the body it sends
TotalSize(declared, chunks) == IF declared THEN Len(WriteChunks(chunks)) ELSE 0

\* whether the callback is invoked for a non-empty chunk:
\*   download_with_retry: if progress_callback
\*   _download_file:      if progress_callback and total_size > 0
CallbackInvoked(fn, progress_callback, total_size) ==
    /\ progress_callback
    /\ fn = "download_with_retry" \/ total_size > 0

NoProgress ==
    [pc |-> "idle", fn |-> "none", progress_callback |-> FALSE, body |-> <<>>,
     total_size |-> 0, todo |-> <<>>,
     downloaded |-> 0, written |-> 0, nonempty |-> 0, reports |-> <<>>]

\* the response has arrived and the destination is opened
StreamStart(fn, progress_callback, declared, chunks) ==
    /\ progress.pc \in {"idle", "done"}
    /\ progress' = [NoProgress EXCEPT !.pc = "streaming", !.fn = fn,
                                     !.progress_callback = progress_callback,
                                     !.body = chunks,
                                     !.total_size = TotalSize(declared, chunks),
                                     !.todo = chunks]
    /\ UNCHANGED exceptProgress

\* one iteration of `for chunk in response.iter_content(...)`
StreamChunk ==
    /\ progress.pc = "streaming"
    /\ progress.todo # <<>>
    /\ LET chunk == Head(progress.todo)
           downloaded == progress.downloaded + Len(chunk)
       IN  progress' =
             IF chunk = <<>>
             THEN [progress EXCEPT !.todo = Tail(@)]
             ELSE [progress EXCEPT
                     !.todo = Tail(@),
                     !.written = @ + Len(chunk),
                     !.downloaded = downloaded,
                     !.nonempty = @ + 1,
                     !.reports = IF CallbackInvoked(progress.fn, progress.progress_callback,
                                                    progress.total_size)
                                 THEN Append(@, downloaded) ELSE @]
    /\ UNCHANGED exceptProgress

\* the iterator is exhausted: the file is closed and the function returns
StreamEnd ==
    /\ progress.pc = "streaming"
    /\ progress.todo = <<>>
    /\ progress' = [progress EXCEPT !.pc = "done"]
    /\ UNCHANGED exceptProgress

\* the builder before its first build
BuildIdle ==
    [pc |-> "idle", scan_assets |-> FALSE, use_local_assets |-> FALSE,
     skip_downloads |-> FALSE, skip_fai |-> FALSE, todo |-> <<>>, entered |-> <<>>,
     ran |-> <<>>, exc |-> "none", result |-> "none"]

Downloaders ==
    {[cls |-> "PackageDownloader", validate_scripts |-> FALSE]}
    \cup {[cls |-> "ScriptDownloader", validate_scripts |-> v] : v \in BOOLEAN}

Init ==
    /\ dest = None
    /\ fetch = FetchIdle
    /\ downloader \in Downloaders
    /\ cache = [f \in CacheFiles |-> None]
    /\ call = NoCall
    /\ batch = NoBatch
    /\ build = BuildIdle
    /\ verify = NoVerify
    /\ tree = EmptyTree
    /\ manifest = None
    /\ scan = NoScan
    /\ edits = NoEdits
    /\ descriptor = NoScript
    /\ cachedir = EmptyCacheDir
    /\ purge = NoPurge
    /\ prepared = NotPrepared
    /\ infos = NoInfos
    /\ shared = None
    /\ racers = [i \in Instances |-> RaceIdle]
    /\ progress = NoProgress

Next ==
    \/ \E d \in PackageInfos, force \in BOOLEAN, resp \in Responses :
          DownloadPackageCall(d, force, resp)
    \/ \E d \in ScriptInfos, force \in BOOLEAN, v \in {None, Some(TRUE), Some(FALSE)},
          resp \in Responses : DownloadScriptCall(d, force, v, resp)
    \/ \E n \in 0 .. MaxBatch, parallel \in BOOLEAN : BatchStart(n, parallel)
    \/ \E d \in PackageInfos, resp \in Responses : DownloadPackagesStep(d, resp)
    \/ \E d \in ScriptInfos, resp \in Responses : DownloadScriptsStep(d, resp)
    \/ \E f \in CacheFiles, file \in {None} \cup {Some(x) : x \in Files} :
          AlterCachedFile(f, file)

Spec == Init /\ [][Next]_vars

NextFetch ==
    \/ \E url \in Urls, mr \in RetryChoices, t \in TimeoutChoices : FetchStart(url, mr, t)
    \/ \E out \in AttemptOutcomes : FetchAttempt(out)

\* download_with_retry is a module function: it is tried beside one downloader
InitFetch == Init /\ downloader.cls = "PackageDownloader"

SpecFetch == InitFetch /\ [][NextFetch]_vars

(***************************************************************************)
(* FAIBuilder.build (build.py)                                             *)
(***************************************************************************)

\* what a phase of the build can end with: it returns, or the named exception
\* leaves it
ConfigOutcomes == {"returned", "ValueError"}
BatchOutcomes == {"returned", "RequestException", "IOError", "ValueError"}
CopyOutcomes == {"returned", "FileNotFoundError"}
GeneratorOutcomes == {"returned", "TemplateError"}
FaiOutcomes == {"returned", "CalledProcessError", "TimeoutExpired"}

AssetPhaseNames ==
    {"scan_and_prepare_local_assets", "prepare_local_assets", "download_assets"}
AssetStepNames ==
    {"scan_and_prepare_local_assets", "prepare_local_assets",
     "download_packages", "download_scripts"}
GeneratorNames ==
    {"generate_autoinstall_config", "generate_fai_config", "generate_first_boot_config"}

\* an asset dispatch made of independent ifs
AssetPhases_Mixed(scan_assets, use_local_assets, skip_downloads) ==
    (IF scan_assets THEN <<"scan_and_prepare_local_assets">> ELSE <<>>)
    \o (IF use_local_assets THEN <<"prepare_local_assets">> ELSE <<>>)
    \o (IF ~skip_downloads THEN <<"download_assets">> ELSE <<>>)

\* an asset dispatch that downloads whatever skip_downloads says
AssetPhases_NoSkip(scan_assets, use_local_assets, skip_downloads) ==
    IF scan_assets THEN <<"scan_and_prepare_local_assets">>
    ELSE IF use_local_assets THEN <<"prepare_local_assets">>
    ELSE <<"download_assets">>

\* the asset phases one build runs: if scan_assets / elif use_local_assets /
\* elif not skip_downloads / else
AssetPhases(scan_assets, use_local_assets, skip_downloads) ==
    IF scan_assets THEN <<"scan_and_prepare_local_assets">>
    ELSE IF use_local_assets THEN <<"prepare_local_assets">>
    ELSE IF ~skip_downloads THEN <<"download_assets">>
    ELSE <<>>

\* where the build stands once the asset phases still to run are todo
AssetsThen(todo) == IF todo = <<>> THEN "generate_autoinstall_config" ELSE "assets"

\* log_phase_start ... log_phase_end of one phase
Ran(b, phase, out) == [b EXCEPT !.ran = Append(b.ran, [phase |-> phase, out |-> out])]

\* one of the three asset methods is entered
Entered(b, method) == [b EXCEPT !.entered = Append(b.entered, method)]

\* a build that cleans up at the end of the try block, not in a finally clause
Cleanup_OnSuccessOnly(b) ==
    IF b.pc = "returned" THEN Ran(b, "cleanup_temp_files", "returned") ELSE b

\* the finally clause of build
Cleanup(b) == Ran(b, "cleanup_temp_files", "returned")

\* a phase whose handler logs the exception and lets the build go on
PhaseEnds_LogOnly(b, out, next) == [b EXCEPT !.pc = next]

\* a build that logs a failed configuration load and goes on
PhaseEnds_ConfigLogOnly(b, out, next) ==
    IF out = "returned" \/ b.ran[Len(b.ran)].phase = "load_and_validate_config"
    THEN [b EXCEPT !.pc = next]
    ELSE Cleanup([b EXCEPT !.pc = "raised", !.exc = out])

\* the end of a phase inside build: it returned and the build goes on at
\* next, or its exception passes through the phase's and build's
\* `except Exception: ...; raise` and the finally clause
PhaseEnds(b, out, next) ==
    IF out = "returned" THEN [b EXCEPT !.pc = next]
    ELSE Cleanup([b EXCEPT !.pc = "raised", !.exc = out])

\* return iso_path / return self.output_dir, then the finally clause
BuildReturns(b, result) == Cleanup([b EXCEPT !.pc = "returned", !.result = result])

\* build(skip_downloads, skip_fai, use_local_assets, scan_assets) is entered
Build(skip_downloads, skip_fai, use_local_assets, scan_assets) ==
    /\ build.pc \in {"idle", "returned", "raised"}
    /\ build' = [BuildIdle EXCEPT
                    !.pc = "load_and_validate_config",
                    !.scan_assets = scan_assets, !.use_local_assets = use_local_assets,
                    !.skip_downloads = skip_downloads, !.skip_fai = skip_fai]
    /\ UNCHANGED exceptBuilder

\* self.load_and_validate_config(), then the if / elif chain picks the asset phase
LoadAndValidateConfig(out) ==
    /\ build.pc = "load_and_validate_config"
    /\ LET todo == AssetPhases(build.scan_assets, build.use_local_assets,
                               build.skip_downloads)
       IN  build' = PhaseEnds([Ran(build, "load_and_validate_config", out)
                                  EXCEPT !.todo = IF out = "returned" THEN todo ELSE <<>>],
                              out, AssetsThen(todo))
    /\ UNCHANGED exceptBuilder

\* self.scan_and_prepare_local_assets()
ScanAndPrepareLocalAssets(out) ==
    /\ build.pc = "assets"
    /\ build.todo # <<>>
    /\ Head(build.todo) = "scan_and_prepare_local_assets"
    /\ build' = PhaseEnds([Ran(Entered(build, "scan_and_prepare_local_assets"),
                               "scan_and_prepare_local_assets", out)
                              EXCEPT !.todo = Tail(build.todo)],
                          out, AssetsThen(Tail(build.todo)))
    /\ UNCHANGED exceptBuilder

\* self.prepare_local_assets()
PrepareLocalAssets(out) ==
    /\ build.pc = "assets"
    /\ build.todo # <<>>
    /\ Head(build.todo) = "prepare_local_assets"
    /\ build' = PhaseEnds([Ran(Entered(build, "prepare_local_assets"),
                               "prepare_local_assets", out)
                              EXCEPT !.todo = Tail(build.todo)],
                          out, AssetsThen(Tail(build.todo)))
    /\ UNCHANGED exceptBuilder

\* self.download_assets(), first half: the packages of the configuration;
\* download_packages is called only for a non-empty list
DownloadAssetsPackages(n, out) ==
    /\ build.pc = "assets"
    /\ build.todo # <<>>
    /\ Head(build.todo) = "download_assets"
    /\ n = 0 => out = "returned"
    /\ LET b == Entered(build, "download_assets")
       IN  build' = PhaseEnds(IF n = 0 THEN b ELSE Ran(b, "download_packages", out),
                              out, "download_assets_scripts")
    /\ UNCHANGED exceptBuilder

\* self.download_assets(), second half: the scripts of the configuration
DownloadAssetsScripts(n, out) ==
    /\ build.pc = "download_assets_scripts"
    /\ n = 0 => out = "returned"
    /\ build' = PhaseEnds([(IF n = 0 THEN build ELSE Ran(build, "download_scripts", out))
                              EXCEPT !.todo = Tail(build.todo)],
                          out, AssetsThen(Tail(build.todo)))
    /\ UNCHANGED exceptBuilder

\* self.generate_autoinstall_config()
GenerateAutoinstallConfig(out) ==
    /\ build.pc = "generate_autoinstall_config"
    /\ build' = PhaseEnds(Ran(build, "generate_autoinstall_config", out),
                          out, "generate_fai_config")
    /\ UNCHANGED exceptBuilder

\* self.generate_fai_config()
GenerateFaiConfig(out) ==
    /\ build.pc = "generate_fai_config"
    /\ build' = PhaseEnds(Ran(build, "generate_fai_config", out),
                          out, "generate_first_boot_config")
    /\ UNCHANGED exceptBuilder

\* self.generate_first_boot_config(); with skip_fai the build returns output_dir
GenerateFirstBootConfig(out) ==
    /\ build.pc = "generate_first_boot_config"
    /\ LET b == PhaseEnds(Ran(build, "generate_first_boot_config", out),
                          out, "run_fai_build")
       IN  build' = IF b.pc = "run_fai_build" /\ build.skip_fai
                    THEN BuildReturns(b, "output_dir") ELSE b
    /\ UNCHANGED exceptBuilder

\* if not skip_fai: iso_path = self.run_fai_build(fai_config_dir); return iso_path
RunFaiBuild(out) ==
    /\ build.pc = "run_fai_build"
    /\ LET b == PhaseEnds(Ran(build, "run_fai_build", out), out, "returned")
       IN  build' = IF b.pc = "returned" THEN BuildReturns(b, "iso_path") ELSE b
    /\ UNCHANGED exceptBuilder

NextBuild ==
    \/ \E sd \in BOOLEAN, sf \in BOOLEAN, ul \in BOOLEAN, sa \in BOOLEAN :
          Build(sd, sf, ul, sa)
    \/ \E out \in ConfigOutcomes : LoadAndValidateConfig(out)
    \/ \E out \in CopyOutcomes : ScanAndPrepareLocalAssets(out)
    \/ \E out \in CopyOutcomes : PrepareLocalAssets(out)
    \/ \E n \in 0 .. 1, out \in BatchOutcomes : DownloadAssetsPackages(n, out)
    \/ \E n \in 0 .. 1, out \in BatchOutcomes : DownloadAssetsScripts(n, out)
    \/ \E out \in GeneratorOutcomes : GenerateAutoinstallConfig(out)
    \/ \E out \in GeneratorOutcomes : GenerateFaiConfig(out)
    \/ \E out \in GeneratorOutcomes : GenerateFirstBootConfig(out)
    \/ \E out \in FaiOutcomes : RunFaiBuild(out)

\* the builder is tried beside one idle downloader
InitBuild == Init /\ downloader.cls = "PackageDownloader"

SpecBuild == InitBuild /\ [][NextBuild]_vars

\* a second source whose URL path has the basename of the first
MirrorUrl == [host |-> "h2", file |-> "a.deb"]
SameFileUrls == {u \in Urls : u.file = MirrorUrl.file} \cup {MirrorUrl}
SameFilePackageInfos ==
    {[d EXCEPT !.url = u] : d \in PackageInfos, u \in SameFileUrls}
SameFileScriptInfos ==
    {[d EXCEPT !.url = u] : d \in ScriptInfos, u \in SameFileUrls}

\* calls on descriptors whose sources derive one cache file name
NextSameFile ==
    \/ \E d \in SameFilePackageInfos, force \in BOOLEAN, resp \in Responses :
          DownloadPackageCall(d, force, resp)
    \/ \E d \in SameFileScriptInfos, force \in BOOLEAN,
          v \in {None, Some(TRUE), Some(FALSE)}, resp \in Responses :
          DownloadScriptCall(d, force, v, resp)

SpecSameFile == Init /\ [][NextSameFile]_vars

NextScan ==
    \/ \E path \in TreePaths : \E node \in TreeChoices[path] : PutNode(path, node)
    \/ \E kind \in Kinds : ScanKind(kind)

\* the scanner is tried beside one idle downloader
InitScan == Init /\ downloader.cls = "PackageDownloader"

SpecScan == InitScan /\ [][NextScan]_vars

NextConfig ==
    \E url \in {None} \cup {Some(v) : v \in UrlInputs},
       local_path \in {None} \cup {Some(v) : v \in PathInputs},
       checksum \in {None} \cup {Some(v) : v \in ChecksumInputs} :
       FirstBootScript(url, local_path, checksum)

SpecConfig == InitScan /\ [][NextConfig]_vars

NextLocal ==
    \/ \E debs \in DebLocalPaths, n \in 0 .. MaxLocalScripts, result \in CopyResults :
          \E scripts \in [1 .. n -> LocalScripts] : PrepareLocalStart(debs, scripts, result)
    \/ \E result \in CopyResults : PrepareLocalScript(result)

SpecLocal == InitScan /\ [][NextLocal]_vars

NextInfo ==
    \E n \in 0 .. MaxConfigScripts : \E scripts \in [1 .. n -> ConfigScripts] :
       CreateScriptInfoFromConfig(scripts)

SpecInfo == InitScan /\ [][NextInfo]_vars

NextRace ==
    \E i \in Instances :
       \/ \E sha256 \in RaceShas : \E force_download \in BOOLEAN :
             RaceCall(i, sha256, force_download)
       \/ RaceExists(i)
       \/ RaceCheck(i)
       \/ RaceEvict(i)
       \/ \E resp \in RaceResponses : RaceGet(i, resp)
       \/ RaceOpen(i)
       \/ RaceWrite(i)
       \/ RaceVerify(i)
       \/ RaceReject(i)
       \/ RaceCleanup(i)
       \/ RaceReturn(i)

SpecRace == InitScan /\ [][NextRace]_vars

NextProgress ==
    \/ \E fn \in StreamingFunctions, cb \in BOOLEAN, declared \in BOOLEAN,
          chunks \in ChunkLists :
          StreamStart(fn, cb, declared, chunks)
    \/ StreamChunk
    \/ StreamEnd

SpecProgress == InitScan /\ [][NextProgress]_vars

NextCleanup ==
    \/ \E path \in CleanPaths : \E entry \in EntryChoices(path) : PutEntry(path, entry)
    \/ MakeOrRemoveCacheDir
    \/ \E now \in Nows, max_age_days \in MaxAgeDays : CleanupCache(now, max_age_days)
    \/ \E now \in Nows, max_age_days \in MaxAgeDays : CleanDirectory(now, max_age_days)

SpecCleanup == InitScan /\ [][NextCleanup]_vars

\* the paths changed between the calls on manifest.json: the assets a scan
\* can return and their directories
ManifestTreePaths ==
    {<<"packages">>, <<"packages", "a.deb">>, <<"packages", "b.deb">>,
     <<"scripts", "s.sh">>, <<"iso", "u.iso">>}

\* save_asset_manifest and verify_assets, with the tree changing between them
NextManifest ==
    \/ \E path \in ManifestTreePaths : \E node \in TreeChoices[path] : PutNode(path, node)
    \/ \E cwd \in Cwds : SaveAssetManifest(cwd)
    \/ VerifyAssets
    \/ RemoveManifest

SpecManifest == InitScan /\ [][NextManifest]_vars

AuditTreePaths == {<<"packages">>, <<"packages", "a.deb">>, <<"scripts", "s.sh">>}

\* verify_assets on the forms manifest.json can have, with the tree changing
NextAudit ==
    \/ \E path \in AuditTreePaths : \E node \in TreeChoices[path] : PutNode(path, node)
    \/ SaveAssetManifest("/work")
    \/ \E kind \in ManifestFileKinds, keys \in SUBSET ManifestKeys :
          VerifyAssetsAt(kind, keys)
    \/ RemoveManifest

SpecAudit == InitScan /\ [][NextAudit]_vars

NextVerify ==
    \E node \in Nodes, h \in VerifyShaChoices, z \in VerifySizeChoices :
        VerifyFileAction(node, h, z)

\* _verify_file is tried beside one idle downloader
InitVerify == Init /\ downloader.cls = "PackageDownloader"

SpecVerify == InitVerify /\ [][NextVerify]_vars

(***************************************************************************)
(* Properties of AssetScanner, checked under SpecScan and SpecManifest     *)
(***************************************************************************)

\* the regular files directly in a kind's directory with an allowed suffix
Eligible(kind) ==
    {name \in Children(tree, <<KindDir(kind)>>) :
        /\ tree[<<KindDir(kind), name>>].kind = "file"
        /\ Suffix(name) \in Extensions(kind)}
Readable(kind) == {name \in Eligible(kind) : tree[<<KindDir(kind), name>>].readable}
Listed == {scan.assets[i].name : i \in DOMAIN scan.assets}

\* C18 as stated: a kind scan returns exactly one AssetInfo for each regular
\* file directly in the kind's directory with an allowed suffix, and nothing
\* else; a missing directory yields the empty list.
C18_Original ==
    scan.op = "scan" =>
        /\ Listed = Eligible(scan.kind)
        /\ Len(scan.assets) = Cardinality(Eligible(scan.kind))
        /\ tree[<<KindDir(scan.kind)>>].kind # "dir" => scan.assets = <<>>

\* C18 amended: exactly one AssetInfo for each such file whose hashes can be
\* read, describing that file; an eligible file that cannot be read has none.
C18_ScanFlat ==
    scan.op = "scan" =>
        /\ Listed = Readable(scan.kind)
        /\ Len(scan.assets) = Cardinality(Readable(scan.kind))
        /\ tree[<<KindDir(scan.kind)>>].kind # "dir" => scan.assets = <<>>
        /\ \A i \in DOMAIN scan.assets :
              LET a == scan.assets[i]
                  node == tree[<<KindDir(scan.kind), a.name>>]
              IN  /\ a.path = <<"local_assets", KindDir(scan.kind), a.name>>
                  /\ a.type = scan.kind
                  /\ a.size = Size(node.content)
                  /\ a.sha256 = Sha256(node.content)

C18_Witness ==
    /\ scan.op = "scan"
    /\ scan.kind = "deb"
    /\ Listed = {"a.deb"}
    /\ Children(tree, <<"packages">>) = {"a.deb", "n.txt", "d.deb"}
    /\ tree[<<"packages", "d.deb", "c.deb">>].kind = "file"

\* C19: a scan in which the hashing of a file fails does not raise: that file
\* is left out and every eligible file that can be read is returned.
C19_UnreadableSkipped ==
    (scan.op = "scan" /\ Readable(scan.kind) # Eligible(scan.kind)) =>
        /\ scan.exc = "none"
        /\ \A name \in Eligible(scan.kind) : name \in Listed <=> name \in Readable(scan.kind)

C19_Witness ==
    /\ scan.op = "scan"
    /\ scan.kind = "deb"
    /\ ~tree[<<"packages", "a.deb">>].readable
    /\ tree[<<"packages", "a.deb">>].kind = "file"
    /\ Listed = {"b.deb"}

ManifestPaths ==
    LET m == Val(manifest)
    IN  {m.packages[i].path : i \in DOMAIN m.packages}
        \cup {m.scripts[i].path : i \in DOMAIN m.scripts}
        \cup {m.iso_files[i].path : i \in DOMAIN m.iso_files}

\* C20: verify_assets after save_asset_manifest with nothing changed under
\* base_dir returns no error; when the one change since the save is the
\* removal of a file the manifest lists, it returns exactly one error, a
\* "missing" one naming the path of that file.
C20_ManifestRoundTrip ==
    (scan.op = "verify_assets" /\ ~IsNone(manifest)) =>
        /\ edits.state = "unchanged" => scan.errors = <<>>
        /\ (edits.state = "unlinked" /\ <<"local_assets">> \o edits.unlinked \in ManifestPaths) =>
              /\ Len(scan.errors) = 1
              /\ scan.errors[1].path = <<"local_assets">> \o edits.unlinked
              /\ scan.errors[1].what \in
                    {"Package missing", "Script missing", "ISO file missing"}

C20_Witness ==
    /\ scan.op = "verify_assets"
    /\ ~IsNone(manifest)
    /\ edits.unlinked = <<"packages", "b.deb">>
    /\ Len(Val(manifest).packages) = 2
    /\ scan.errors = <<[what |-> "Package missing", path |-> <<"local_assets", "packages", "b.deb">>]>>

(***************************************************************************)
(* Properties of manifest.json, checked under SpecManifest                 *)
(***************************************************************************)

\* the entries of the manifest with the kind of the list that holds each
ManifestEntries ==
    LET m == Val(manifest)
    IN  {[kind |-> "deb", entry |-> m.packages[i]] : i \in DOMAIN m.packages}
        \cup {[kind |-> "script", entry |-> m.scripts[i]] : i \in DOMAIN m.scripts}
        \cup {[kind |-> "iso", entry |-> m.iso_files[i]] : i \in DOMAIN m.iso_files}

\* what a new scan finds for a manifest entry: its file is not among the
\* scanned assets, is there with another digest, or is there with the same one
EntryState(ke) ==
    LET node == tree[Tail(ke.entry.path)]
    IN  IF ke.entry.name \notin Readable(ke.kind) THEN "missing"
        ELSE IF Sha256(node.content) # ke.entry.sha256 THEN "checksum mismatch"
        ELSE "ok"

\* the error strings of verify_assets, without the path
ErrorText(kind, state) ==
    CASE kind = "deb" /\ state = "missing" -> "Package missing"
      [] kind = "deb" /\ state = "checksum mismatch" -> "Package checksum mismatch"
      [] kind = "script" /\ state = "missing" -> "Script missing"
      [] kind = "script" /\ state = "checksum mismatch" -> "Script checksum mismatch"
      [] kind = "iso" /\ state = "missing" -> "ISO file missing"
      [] kind = "iso" /\ state = "checksum mismatch" -> "ISO file checksum mismatch"
      [] OTHER -> ""

\* C21: for a manifest that save_asset_manifest wrote, verify_assets returns
\* exactly one error for each entry whose file is not in the new scan (a
\* "missing" one) or has another sha256 there (a "checksum mismatch" one),
\* naming the path of the entry, and no error for any other entry.
C21_OneErrorPerBadEntry ==
    (scan.op = "verify_assets" /\ ~IsNone(manifest)) =>
        /\ scan.exc = "none"
        /\ \A ke \in ManifestEntries :
              LET about == {j \in DOMAIN scan.errors : scan.errors[j].path = ke.entry.path}
              IN  IF EntryState(ke) = "ok" THEN about = {}
                  ELSE /\ Cardinality(about) = 1
                       /\ \A j \in about :
                             scan.errors[j].what = ErrorText(ke.kind, EntryState(ke))
        /\ \A j \in DOMAIN scan.errors :
              \E ke \in ManifestEntries : ke.entry.path = scan.errors[j].path

C21_Witness ==
    /\ scan.op = "verify_assets"
    /\ ~IsNone(manifest)
    /\ Len(Val(manifest).packages) = 2
    /\ scan.errors =
          <<[what |-> "Package missing", path |-> <<"local_assets", "packages", "a.deb">>],
            [what |-> "Script checksum mismatch", path |-> <<"local_assets", "scripts", "s.sh">>]>>

\* C22: verify_assets returns the empty list only when every manifest entry
\* has a current file with the same digest and the scan holds no asset that
\* the manifest does not declare.
C22_EmptyOnlyOnExactMatch ==
    (scan.op = "verify_assets" /\ ~IsNone(manifest) /\ scan.errors = <<>>) =>
        /\ \A ke \in ManifestEntries : EntryState(ke) = "ok"
        /\ \A kind \in Kinds : \A name \in Readable(kind) :
              <<"local_assets", KindDir(kind), name>> \in ManifestPaths

\* C23: in the manifest save_asset_manifest wrote, the three totals of the
\* summary are the lengths of the three lists and total_size_bytes is the sum
\* of the sizes of all their entries.
C23_SummaryMatchesLists ==
    ~IsNone(manifest) =>
        LET m == Val(manifest)
            sizes(list) == SumSeq([i \in DOMAIN list |-> list[i].size])
        IN  /\ m.summary.total_packages = Len(m.packages)
            /\ m.summary.total_scripts = Len(m.scripts)
            /\ m.summary.total_iso_files = Len(m.iso_files)
            /\ m.summary.total_size_bytes =
                  sizes(m.packages) + sizes(m.scripts) + sizes(m.iso_files)

C23_Witness ==
    /\ scan.op = "save_asset_manifest"
    /\ ~IsNone(manifest)
    /\ Len(Val(manifest).packages) = 2
    /\ Len(Val(manifest).scripts) = 1
    /\ Len(Val(manifest).iso_files) = 1
    /\ Val(manifest).summary.total_size_bytes = 5

\* C24: a save_asset_manifest over a tree that has not changed since the
\* manifest was written writes the same manifest again, whatever the listing
\* order and the working directory of the call.
C24_SaveDeterministic ==
    [][(/\ ~IsNone(manifest)
        /\ edits = NoEdits
        /\ tree' = tree
        /\ scan'.op = "save_asset_manifest") => manifest' = manifest]_vars

\* C26: when load_and_validate_config raises, build raises that error with
\* no asset method entered and no download, copy, scan, generator or FAI step
\* run: the cleanup of the finally clause is all that follows.
C26_ConfigFailsFirst ==
    (build.ran # <<>> /\ build.ran[1].out # "returned") =>
        /\ build.ran[1].phase = "load_and_validate_config"
        /\ build.pc = "raised"
        /\ build.exc = build.ran[1].out
        /\ build.entered = <<>>
        /\ build.todo = <<>>
        /\ build.result = "none"
        /\ build.ran = <<build.ran[1], [phase |-> "cleanup_temp_files", out |-> "returned"]>>

C26_Witness ==
    /\ build.pc = "raised"
    /\ build.exc = "ValueError"
    /\ ~build.skip_downloads
    /\ build.ran = <<[phase |-> "load_and_validate_config", out |-> "ValueError"],
                     [phase |-> "cleanup_temp_files", out |-> "returned"]>>

\* C27: the path download_script returns for a descriptor with
\* executable=True names a file whose execute bits are set, on the cache-hit
\* paths as after a download.
C27_ReturnedExecutable ==
    (call.op = "download_script" /\ call.outcome = "returned" /\ call.info.executable) =>
        /\ ~IsNone(cache[call.path])
        /\ Val(cache[call.path]).exec

\* C29: a download_package / download_script call that succeeds returns,
\* with the local path, the SHA-256 digest and the size measured from the
\* cached file, whether or not the descriptor declared them.
C29_DigestReturned ==
    (call.op \in {"download_package", "download_script"} /\ call.outcome = "returned") =>
        LET value == ReturnValue(call)
        IN  /\ {"path", "sha256", "size"} \subseteq DOMAIN value
            /\ value.sha256 = Sha256(Val(cache[call.path]).content)
            /\ value.size = Size(Val(cache[call.path]).content)

(***************************************************************************)
(* Properties of verify_assets on any manifest file, checked under         *)
(* SpecAudit                                                               *)
(***************************************************************************)

\* the kinds of entries verify_assets has compared when it returns
KindsCompared(keys) ==
    IF "packages" \notin keys THEN {}
    ELSE IF "scripts" \notin keys THEN {"deb"}
    ELSE IF "iso_files" \notin keys THEN {"deb", "script"}
    ELSE {"deb", "script", "iso"}

\* C38: verify_assets never raises.  Without a manifest file it returns the
\* single error 'Manifest file not found' and scans nothing.  For a manifest
\* that cannot be read, is not JSON or lacks the packages or the scripts key
\* it returns the errors collected up to that point followed by one 'Error
\* reading manifest' entry.  A manifest without iso_files is accepted: the
\* package and script errors are returned and no read error.
C38_VerifyNeverRaises ==
    (scan.op = "verify_assets" /\ scan.file # "") =>
        /\ scan.exc = "none"
        /\ scan.file = "missing" => (scan.errors = <<NotFoundError>> /\ ~scan.scanned)
        /\ scan.file \in {"unreadable", "invalid_json"} => scan.errors = <<ReadError>>
        /\ scan.file = "object" =>
              LET n == Len(scan.errors)
                  failed == ~({"packages", "scripts"} \subseteq scan.keys)
                  collected == IF failed THEN SubSeq(scan.errors, 1, n - 1) ELSE scan.errors
              IN  /\ failed => (n > 0 /\ scan.errors[n] = ReadError)
                  /\ \A j \in DOMAIN collected : collected[j] # ReadError
                  /\ \A ke \in ManifestEntries :
                        LET about == {j \in DOMAIN collected :
                                         collected[j].path = ke.entry.path}
                        IN  IF ke.kind \in KindsCompared(scan.keys)
                               /\ EntryState(ke) # "ok"
                            THEN /\ Cardinality(about) = 1
                                 /\ \A j \in about :
                                       collected[j].what = ErrorText(ke.kind, EntryState(ke))
                            ELSE about = {}

\* a manifest that lost its scripts key while a package it lists is gone: the
\* package error is kept and the read error follows it
C38_Witness ==
    /\ scan.op = "verify_assets"
    /\ scan.file = "object"
    /\ scan.keys = {"packages", "iso_files"}
    /\ scan.errors = <<[what |-> "Package missing",
                        path |-> <<"local_assets", "packages", "a.deb">>], ReadError>>

(***************************************************************************)
(* Properties of FirstBootScript, checked under SpecConfig                 *)
(***************************************************************************)

BothSources == ~IsNone(descriptor.given.url) /\ ~IsNone(descriptor.given.local_path)
NoSource == IsNone(descriptor.given.url) /\ IsNone(descriptor.given.local_path)

C30_LocalCopyVerified ==
    \A i \in DOMAIN prepared.scripts :
        LET script == prepared.scripts[i]
            copy == prepared.cache[BaseName(script.local_path)]
            differs == /\ ~IsNone(script.checksum)
                       /\ Val(script.checksum) # Sha256(LocalSources[script.local_path])
        IN  (differs /\ i < prepared.index) =>
                /\ IsNone(copy)
                /\ prepared.status = "raised"
                /\ prepared.exc = "ValueError"

(***************************************************************************)
(* Properties of create_script_info_from_config, checked under SpecInfo    *)
(***************************************************************************)

\* C31: create_script_info_from_config returns, for every configured script
\* with a url and in their order, one ScriptInfo for that url whose sha256 is
\* the checksum the script declares (None when it declares none).
C31_ChecksumCarried ==
    infos.op = "create_script_info_from_config" =>
        LET withUrl == SelectSeq(infos.scripts, LAMBDA c : ~IsNone(c.url))
        IN  /\ infos.exc = "none"
            /\ Len(infos.value) = Len(withUrl)
            /\ \A i \in DOMAIN withUrl :
                  /\ infos.value[i].url = Val(withUrl[i].url)
                  /\ infos.value[i].sha256 = withUrl[i].checksum

(***************************************************************************)
(* Properties of two instances on one cache path, checked under SpecRace   *)
(***************************************************************************)

\* what instance i returned satisfies its descriptor and is the whole body
ReturnedWhole(i) ==
    /\ ~IsNone(racers[i].found)
    /\ Val(racers[i].found).content = RaceContent
    /\ IsNone(racers[i].sha256)
         \/ Sha256(Val(racers[i].found).content) = Val(racers[i].sha256)

\* C32: download_package takes no lock.  An instance that has the cache path
\* to itself returns a complete file that satisfies its descriptor; a path
\* returned with the file missing or incomplete is returned while the other
\* instance has been called on the same path (the race of C32_Witness).
C32_RaceNeedsPeer ==
    \A i \in Instances :
       (racers[i].pc = "returned" /\ ~ReturnedWhole(i)) => racers[i].peer # "idle"

\* instance 1 returns the path of a file it has verified while instance 2 has
\* deleted that file, and in another run while instance 2 is rewriting it
C32_Deleted ==
    /\ racers[1].pc = "returned"
    /\ IsNone(racers[1].found)
    /\ racers[1].peer \in {"get", "open", "cleanup", "raised"}

C32_Rewriting ==
    /\ racers[1].pc = "returned"
    /\ ~IsNone(racers[1].found)
    /\ Val(racers[1].found).content # RaceContent
    /\ racers[1].peer = "write"

C32_Witness == C32_Deleted \/ C32_Rewriting

(***************************************************************************)
(* Properties of the cache cleanup, checked under SpecCleanup              *)
(***************************************************************************)

C15_VerifyTotal ==
    verify.op = "_verify_file" =>
        /\ verify.exc = "none"
        /\ verify.value =
              (/\ verify.node.kind # "absent"
               /\ ~IsNone(verify.expected_size) =>
                     Size(verify.node.content) = Val(verify.expected_size)
               /\ ~IsNone(verify.expected_sha256) =>
                     Sha256(verify.node.content) = Val(verify.expected_sha256))

(***************************************************************************)
(* Properties of FAIBuilder.build, checked under SpecBuild                 *)
(***************************************************************************)
BuildFinished == build.pc \in {"returned", "raised"}
ConfigLoaded ==
    build.ran # <<>> /\ build.ran[1] = [phase |-> "load_and_validate_config", out |-> "returned"]
PhasesRan == {build.ran[i].phase : i \in DOMAIN build.ran}

\* C12: when a step of the asset phase (a batch download, the copy of the
\* local assets, the scan-and-copy) raises, build raises that same error, no
\* generator and no FAI build runs, only the cleanup follows, and a failed
\* package download is not followed by a script download.
C12_AssetFailureAborts ==
    \A i \in DOMAIN build.ran :
        (build.ran[i].phase \in AssetStepNames /\ build.ran[i].out # "returned") =>
            /\ build.pc = "raised"
            /\ build.exc = build.ran[i].out
            /\ build.result = "none"
            /\ PhasesRan \cap (GeneratorNames \cup {"run_fai_build"}) = {}
            /\ Len(build.ran) = i + 1
            /\ build.ran[i + 1].phase = "cleanup_temp_files"
            /\ build.ran[i].phase = "download_packages" => "download_scripts" \notin PhasesRan

C12_Witness ==
    /\ build.pc = "raised"
    /\ build.exc = "ValueError"
    /\ build.entered = <<"download_assets">>
    /\ Len(build.ran) = 3
    /\ build.ran[2] = [phase |-> "download_packages", out |-> "ValueError"]

\* C13 as stated: in every build invocation at most one asset method runs,
\* and none runs exactly when skip_downloads is set while scan_assets and
\* use_local_assets are not.
C13_Original ==
    /\ Len(build.entered) <= 1
    /\ BuildFinished =>
          (build.entered = <<>> <=>
              (build.skip_downloads /\ ~build.scan_assets /\ ~build.use_local_assets))

\* C13 amended: the equivalence holds for the invocations whose configuration
\* loaded and validated; when load_and_validate_config raises, no asset
\* method runs whatever the flags.
C13_OneAssetMode ==
    /\ Len(build.entered) <= 1
    /\ \A i \in DOMAIN build.entered : build.entered[i] \in AssetPhaseNames
    /\ (BuildFinished /\ ConfigLoaded) =>
          (build.entered = <<>> <=>
              (build.skip_downloads /\ ~build.scan_assets /\ ~build.use_local_assets))
    /\ (BuildFinished /\ ~ConfigLoaded) => build.entered = <<>>

C13_Witness ==
    /\ build.pc = "returned"
    /\ build.skip_downloads /\ ~build.scan_assets /\ ~build.use_local_assets
    /\ build.entered = <<>>
    /\ "generate_first_boot_config" \in PhasesRan

\* the asset method the stated preference selects
PreferredAssetPhases(scan_assets, use_local_assets, skip_downloads) ==
    IF use_local_assets THEN <<"prepare_local_assets">>
    ELSE IF scan_assets THEN <<"scan_and_prepare_local_assets">>
    ELSE IF ~skip_downloads THEN <<"download_assets">>
    ELSE <<>>

\* C14: once the configuration is loaded, the asset method that runs is the
\* first selected one in the order explicit local paths, scan, download; with
\* use_local_assets and scan_assets both set it is prepare_local_assets.
C14_LocalPathsPreferred ==
    (BuildFinished /\ ConfigLoaded) =>
        build.entered = PreferredAssetPhases(build.scan_assets, build.use_local_assets,
                                             build.skip_downloads)

\* the place of a step in the order of build
PhaseRank(phase) ==
    CASE phase = "load_and_validate_config" -> 1
      [] phase \in {"scan_and_prepare_local_assets", "prepare_local_assets",
                    "download_packages"} -> 2
      [] phase = "download_scripts" -> 3
      [] phase = "generate_autoinstall_config" -> 4
      [] phase = "generate_fai_config" -> 5
      [] phase = "generate_first_boot_config" -> 6
      [] phase = "run_fai_build" -> 7
      [] OTHER -> 8

\* C39: in every build the phases occur in the order configuration
\* validation, at most one asset phase, autoinstall generation, FAI-config
\* generation, first-boot generation and, only when skip_fai is false, the FAI
\* build; a phase starts only after the one before it returned without error;
\* cleanup_temp_files runs exactly once, as the last step, when the build
\* returns and when it raises.
C39_PhaseOrderAndCleanup ==
    LET n == Len(build.ran)
        cleanups == {i \in 1 .. n : build.ran[i].phase = "cleanup_temp_files"}
        required == {"load_and_validate_config"} \cup GeneratorNames
                    \cup (IF build.skip_fai THEN {} ELSE {"run_fai_build"})
    IN  /\ \A i, j \in 1 .. n :
              i < j => PhaseRank(build.ran[i].phase) < PhaseRank(build.ran[j].phase)
        /\ Len(build.entered) <= 1
        /\ \A i \in 1 .. n - 1 :
              build.ran[i].out # "returned" => build.ran[i + 1].phase = "cleanup_temp_files"
        /\ "run_fai_build" \in PhasesRan => ~build.skip_fai
        /\ IF BuildFinished THEN cleanups = {n} ELSE cleanups = {}
        /\ n > 0 /\ build.ran[n].out # "returned" => build.pc = "raised"
        /\ build.pc = "returned" =>
              /\ required \subseteq PhasesRan
              /\ \A i \in 1 .. n : build.ran[i].out = "returned"

\* a complete build with downloads and the FAI build, cleaned up at the end
C39_Witness ==
    /\ build.pc = "returned"
    /\ build.result = "iso_path"
    /\ build.entered = <<"download_assets">>
    /\ Len(build.ran) = 8
    /\ build.ran[8].phase = "cleanup_temp_files"

\* a build whose FAI build fails is cleaned up as well
C39_FailureCleaned ==
    /\ build.pc = "raised"
    /\ build.exc = "CalledProcessError"
    /\ build.ran[Len(build.ran)].phase = "cleanup_temp_files"

(***************************************************************************)
(* Properties of download_package / download_script, checked under Spec    *)
(***************************************************************************)
IsResolve(c) == c.op \in {"download_package", "download_script"}

\* the file exists and passes each check the descriptor declares
MeetsDeclared(file, info) ==
    /\ ~IsNone(file)
    /\ ~IsNone(info.sha256) => Sha256(Val(file).content) = Val(info.sha256)
    /\ ~IsNone(info.size_bytes) => Size(Val(file).content) = Val(info.size_bytes)

\* a cached file that fails a declared check
Stale(file, info) == ~IsNone(file) /\ ~MeetsDeclared(file, info)

\* C1: every path returned by download_package / download_script designates
\* an existing cache file whose SHA-256 and size equal the declared ones, for
\* each of the two that is declared.
C1_ReturnedVerified ==
    (IsResolve(call) /\ call.outcome = "returned") =>
        MeetsDeclared(cache[call.path], call.info)

C1_Witness ==
    /\ call.op = "download_package"
    /\ call.outcome = "returned"
    /\ call.force
    /\ call.requests # <<>>
    /\ ~IsNone(call.info.sha256)
    /\ ~IsNone(call.info.size_bytes)

\* C2: download_package (force_download false) called again on the descriptor
\* whose file the previous call cached: no HTTP request, the cache unchanged,
\* the same path returned, holding the same content.
C2_IdempotentHit ==
    [][(call'.op = "download_package" /\ call'.repeat /\ ~call'.force) =>
          /\ call'.requests = <<>>
          /\ call'.outcome = "returned"
          /\ cache' = cache
          /\ call'.path = call.path
          /\ Sha256(Val(cache'[call'.path]).content) = Sha256(Val(cache[call.path]).content)
          /\ Size(Val(cache'[call'.path]).content) = Size(Val(cache[call.path]).content)]_vars

C2_Witness ==
    /\ call.op = "download_package"
    /\ call.repeat
    /\ ~call.force
    /\ call.outcome = "returned"
    /\ call.requests = <<>>
    /\ ~IsNone(call.info.sha256)
    /\ MeetsDeclared(cache[call.path], call.info)

\* the response body passes every check download_package / download_script
\* applies to a fresh download
FreshAccepted(c) ==
    /\ c.resp.kind = "ok"
    /\ MeetsDeclared(Some([content |-> WriteChunks(c.resp.chunks), exec |-> FALSE]), c.info)
    /\ (c.op = "download_script" /\ ShouldValidate(c.validate, downloader.validate_scripts))
          => IsUtf8(WriteChunks(c.resp.chunks))

C4_FailedVerificationRemoved ==
    (IsResolve(call) /\ call.resp.kind = "ok"
        /\ ~MeetsDeclared(Some([content |-> WriteChunks(call.resp.chunks), exec |-> FALSE]),
                          call.info))
    => /\ call.outcome = "ValueError"
       /\ IsNone(cache[call.path])

C4_Witness ==
    /\ call.op = "download_package"
    /\ call.resp.kind = "ok"
    /\ IsNone(call.info.sha256)
    /\ ~IsNone(call.info.size_bytes)
    /\ call.outcome = "ValueError"
    /\ IsNone(cache[call.path])

HitPath == <<"DECLARED", "CACHED">>
MissPath == <<"DECLARED", "FETCHING", "VERIFYING", "CACHED">>
VerifyFailPath == <<"DECLARED", "FETCHING", "VERIFYING", "FAILED">>
FetchFailPath == <<"DECLARED", "FETCHING", "FAILED">>

\* what C5 says beyond the list of paths: CACHED on the miss path only after
\* verification passed; a verification failure is terminal (one fetch only,
\* ValueError raised) and a failing call stops the batch.
C5_Rest ==
    /\ IsResolve(call) =>
          /\ call.trace = HitPath => (call.requests = <<>> /\ call.outcome = "returned")
          /\ call.trace = MissPath =>
                /\ call.outcome = "returned"
                /\ MeetsDeclared(cache[call.path], call.info)
          /\ call.trace = VerifyFailPath =>
                /\ call.outcome = "ValueError"
                /\ call.requests = <<call.info.url>>
          /\ Len(call.requests) <= 1
    /\ (IsResolve(call) /\ batch.status # "idle" /\ call.outcome # "returned") =>
          /\ batch.status = "raised"
          /\ batch.exc = call.outcome
    /\ batch.status = "returned" => batch.index = batch.length
    /\ batch.status = "running" => (IsResolve(call) => call.outcome = "returned")

C6_RetryingFetch ==
    (IsResolve(call) /\ call.resp.kind = "error") =>
        /\ Len(call.requests) = DefaultMaxRetries + 1
        /\ call.outcome = "DownloadError"

\* C11: download_packages / download_scripts resolve one descriptor per
\* iteration, in list order, also with parallel = TRUE; the first resolve that
\* raises ends the batch with that exception: no later descriptor is resolved
\* (nothing more is requested or written) and no result map is returned; a
\* batch returns its map only after every descriptor was resolved.
C11_BatchFailFast ==
    [][/\ batch'.status = "raised" =>
             /\ IsResolve(call')
             /\ call'.outcome # "returned"
             /\ batch'.exc = call'.outcome
       /\ batch'.status = "returned" =>
             /\ batch'.index = batch'.length
             /\ batch'.exc = "none"
             /\ batch'.length > 0 => (IsResolve(call') /\ call'.outcome = "returned")
       /\ (batch.status = "running" /\ batch' # batch) =>
             /\ batch'.index = batch.index + 1
             /\ batch'.index <= batch.length
             /\ batch'.length = batch.length
             /\ batch'.parallel = batch.parallel
             /\ IsResolve(call')
             /\ Len(call'.requests) <= 1
             /\ \A f \in CacheFiles : f # call'.path => cache'[f] = cache[f]
             /\ call'.outcome = "returned" =>
                   /\ batch'.results = (call'.info.name :> call'.path) @@ batch.results
                   /\ batch'.status = IF batch'.index = batch.length
                                      THEN "returned" ELSE "running"
       /\ batch.status = "raised" =>
             \/ batch'.index = 0
             \/ (batch' = batch /\ cache' = cache /\ call' = call)]_vars

C11_Witness ==
    /\ batch.status = "raised"
    /\ batch.parallel
    /\ batch.index = 1
    /\ batch.length = MaxBatch
    /\ call.outcome = "RequestException"

\* C16 (checked under SpecSameFile): a call that returns, without a request,
\* the cache file that the previous call stored for a descriptor of another
\* source does so only after an explicit digest check: its descriptor
\* declares a sha256 and the cached content has it.
C16_DedupByDigest ==
    [][(/\ IsResolve(call) /\ call.outcome = "returned"
        /\ IsResolve(call') /\ call'.outcome = "returned"
        /\ call'.info.url # call.info.url
        /\ call'.path = call.path
        /\ call'.requests = <<>>)
       => /\ ~IsNone(call'.info.sha256)
          /\ Sha256(Val(cache'[call'.path]).content) = Val(call'.info.sha256)]_vars

\* C17: a call with force_download false on a descriptor that declares no
\* sha256 and no size, made while a file exists at its cache path, returns
\* that path at once: no request, the file neither read, replaced nor removed,
\* whatever its content and whatever calls came before.
C17_UndeclaredTrusted ==
    [][(/\ IsResolve(call') /\ ~call'.force
        /\ IsNone(call'.info.sha256) /\ IsNone(call'.info.size_bytes)
        /\ ~IsNone(cache[call'.path]))
       => /\ call'.outcome = "returned"
          /\ call'.requests = <<>>
          /\ call'.resp = NoResponse
          /\ ~call'.evicted
          /\ call'.trace = HitPath
          /\ cache' = cache]_vars

C17_Witness ==
    /\ IsResolve(call)
    /\ call.repeat
    /\ ~call.force
    /\ IsNone(call.info.sha256) /\ IsNone(call.info.size_bytes)
    /\ call.outcome = "returned"
    /\ call.requests = <<>>
    /\ Val(cache[call.path]).content = <<200>>

\* C36: when download_package / download_script raises because the fetch or
\* the verification after the fetch failed, no file exists at the cache path
\* of that asset afterwards, also when a valid cached copy was there before a
\* call with force_download = TRUE, and every other cache file is as before.
C36_FailureLeavesNoFile ==
    [][(IsResolve(call') /\ call'.outcome \in {"RequestException", "IOError", "ValueError"})
       => /\ IsNone(cache'[call'.path])
          /\ \A f \in CacheFiles : f # call'.path => cache'[f] = cache[f]]_vars

\* a forced download of the descriptor that the previous call had resolved
\* fails at the request: the copy that was valid is gone
C36_Witness ==
    /\ IsResolve(call)
    /\ call.repeat
    /\ call.force
    /\ call.outcome = "RequestException"
    /\ IsNone(cache[call.path])

\* C37: with script validation enabled (validate_scripts at construction and
\* no validate = False on the call) every path returned by download_script
\* designates a file that passes content validation, as a fresh download or
\* as a cache hit, whatever calls were made before.
C37_ReturnedValidated ==
    (/\ call.op = "download_script"
     /\ call.outcome = "returned"
     /\ ShouldValidate(call.validate, downloader.validate_scripts))
    => ValidateScriptContent(cache[call.path])

(***************************************************************************)
(* Properties of download_with_retry, checked under SpecFetch              *)
(***************************************************************************)
FetchFinished == fetch.pc \in {"returned", "raised"}
AllAttemptsFailed == fetch.requests # <<>> /\ Len(fetch.fails) = Len(fetch.requests)
AllTimedOut == AllAttemptsFailed /\ \A i \in DOMAIN fetch.fails : fetch.fails[i] = "timeout"

\* C7: when every attempt fails, exactly max_retries + 1 attempts are made,
\* DownloadError is raised only after the last of them, and no file is left
\* at the destination.
C7_RetryExhaustion ==
    /\ (FetchFinished /\ AllAttemptsFailed) =>
          /\ fetch.pc = "raised"
          /\ Len(fetch.requests) = fetch.max_retries + 1
          /\ IsNone(dest)
    /\ (fetch.pc = "raised") =>
          /\ Len(fetch.fails) = fetch.max_retries + 1
          /\ fetch.events[Len(fetch.events)] = "raise"
    /\ (fetch.pc = "loop") => Len(fetch.fails) < fetch.max_retries + 1

C7_Witness ==
    /\ fetch.pc = "raised"
    /\ fetch.max_retries = 2
    /\ Len(fetch.fails) = 3
    /\ fetch.fails[3] = "partial"
    /\ IsNone(dest)

\* C8: k failed attempts followed by a successful one: the call returns after
\* exactly k + 1 requests, all to the URL of the call, and the destination
\* holds exactly the bytes of the successful response.
C8_RetryThenSucceed ==
    (fetch.pc = "returned" /\ fetch.requests # <<>>) =>
        /\ Len(fetch.requests) = Len(fetch.fails) + 1
        /\ Len(fetch.fails) <= fetch.max_retries
        /\ \A i \in DOMAIN fetch.requests : fetch.requests[i] = fetch.url
        /\ ~IsNone(fetch.received)
        /\ dest = Some(WriteChunks(Val(fetch.received)))

C8_Witness ==
    /\ fetch.pc = "returned"
    /\ fetch.fails = <<"error", "partial">>
    /\ Len(fetch.requests) = 3
    /\ dest = Some(<<65, 200>>)

\* the backoff schedule 1, 2, 4, ... written out
RECURSIVE Doubling(_)
Doubling(n) == IF n = 0 THEN <<>> ELSE Append(Doubling(n - 1), Pow2(n - 1))

\* C9: after a failed attempt that is not the last the partial file is gone
\* and the call sleeps 1, 2, 4, ... seconds (2^attempt, attempt from 0); there
\* is no sleep after the final failed attempt nor after a success.
C9_Backoff ==
    /\ fetch.sleeps = Doubling(Len(fetch.sleeps))
    /\ Len(fetch.sleeps) = Len(fetch.fails) - (IF fetch.pc = "raised" THEN 1 ELSE 0)
    /\ \A i \in DOMAIN fetch.events :
          /\ fetch.events[i] = "sleep" =>
                /\ i > 1
                /\ fetch.events[i - 1] \in {"get", "unlink"}
          /\ fetch.events[i] \in {"return", "raise"} =>
                /\ i = Len(fetch.events)
                /\ fetch.events[i - 1] # "sleep"
    /\ (fetch.pc = "loop" /\ fetch.fails # <<>>) => IsNone(dest)

C9_Witness ==
    /\ fetch.pc = "raised"
    /\ fetch.sleeps = <<1, 2, 4>>
    /\ fetch.fails[2] = "partial"

\* C10 as stated: with max_retries = 3 and timeout = 30 a fetch whose every
\* request times out blocks for at most 104 seconds.
C10_Original ==
    (fetch.pc = "raised" /\ fetch.max_retries = DefaultMaxRetries
        /\ fetch.timeout = DefaultTimeout /\ AllTimedOut)
    => fetch.elapsed <= 30 + 2 + 30 + 4 + 30 + 8

\* C10 amended: such a fetch makes four timed requests separated by sleeps
\* of 1, 2 and 4 seconds and blocks 30 + 1 + 30 + 2 + 30 + 4 + 30 = 127 seconds.
C10_WorstCase ==
    (fetch.pc = "raised" /\ fetch.max_retries = DefaultMaxRetries
        /\ fetch.timeout = DefaultTimeout /\ AllTimedOut)
    => /\ Len(fetch.requests) = 4
       /\ fetch.sleeps = <<1, 2, 4>>
       /\ fetch.elapsed = 30 + 1 + 30 + 2 + 30 + 4 + 30

C10_Witness ==
    /\ fetch.pc = "raised"
    /\ fetch.max_retries = DefaultMaxRetries
    /\ fetch.timeout = DefaultTimeout
    /\ AllTimedOut
    /\ fetch.elapsed = 127

\* C35: for every integer max_retries, zero and negative values included,
\* download_with_retry returns normally only after one attempt has succeeded
\* and written the destination; otherwise it raises DownloadError.
C35_ReturnsOnlyAfterSuccess ==
    /\ fetch.pc = "returned" =>
          /\ fetch.requests # <<>>
          /\ ~IsNone(fetch.received)
          /\ dest = Some(WriteChunks(Val(fetch.received)))
    /\ fetch.pc \in {"returned", "raised"} =>
          (IsNone(fetch.received) <=> fetch.pc = "raised")

\* C33: download_with_retry closes the session it opens for each attempt,
\* whether the attempt succeeds or fails: when the call has returned or
\* raised, none of its sessions is still open.
C33_SessionsReleased ==
    fetch.pc \in {"returned", "raised"} => fetch.sessions = 0

(***************************************************************************)
(* Properties of the progress callback, checked under SpecProgress         *)
(***************************************************************************)

\* C34: a callback that is given is invoked once for every non-empty chunk, whether or
\* not the server declares a content-length, each time with the cumulative
\* byte count; the count never decreases within the attempt and after a
\* successful download the last reported count is the number of bytes written.
C34_ProgressReported ==
    progress.progress_callback =>
    /\ Len(progress.reports) = progress.nonempty
    /\ \A k \in 1 .. Len(progress.reports) - 1 :
          progress.reports[k] <= progress.reports[k + 1]
    /\ (progress.pc = "done" /\ progress.written > 0)
          => /\ progress.reports # <<>>
             /\ progress.reports[Len(progress.reports)] = progress.written

====
